---- MODULE Spec2Model ----
(***************************************************************************)
(* A model of the Dynamic Bonding Curve SDK's curve builders               *)
(* (helpers/buildCurve.ts, build.ts) and of the curve and fee arithmetic  *)
(* they call (helpers/common.ts, math/curve.ts, math/feeMath.ts).          *)
(*                                                                         *)
(* Numbers.  The program computes on bn.js integers (unbounded, signed)    *)
(* and decimal.js decimals.  Sqrt prices are Q64.64 fixed point, token     *)
(* amounts are u64 and liquidities u128.  The model keeps every formula    *)
(* and every rounding direction, and scales the widths: a sqrt price has   *)
(* ResolutionBits fractional bits, so that every intermediate product      *)
(* stays inside the model checker's integers.                              *)
(***************************************************************************)
EXTENDS Integers, Sequences, FiniteSets, TLC

(***************************************************************************)
(* Bounds of the model.                                                    *)
(***************************************************************************)
\* fractional bits of a sqrt price (RESOLUTION = 64 in the program)
ResolutionBits == 8
\* binary fraction digits a Decimal keeps (decimal.js: 20 significant digits)
DecimalBits == 12
\* binary fraction digits a JavaScript number keeps (IEEE double: 52)
NumberBits == 4
\* the largest totalTokenSupply (whole tokens) a call is given
MaxTokenSupply == 20
\* fractional bits of a fee decay factor (64 in the program)
FeeScaleBits == 16
\* decimal digits the variable fee is scaled down by (11 in the program)
VariableFeeScaleDigits == 5

(***************************************************************************)
(* bn.js arithmetic.                                                       *)
(***************************************************************************)
Abs(a) == IF a < 0 THEN -a ELSE a

Min(a, b) == IF a < b THEN a ELSE b

Max(a, b) == IF a > b THEN a ELSE b

\* BN.div: the quotient truncated toward zero (the caller excludes b = 0,
\* on which bn.js throws)
BNDiv(a, b) ==
    IF (a >= 0) = (b > 0) THEN Abs(a) \div Abs(b) ELSE -(Abs(a) \div Abs(b))

\* BN.shln / BN.shrn on a non-negative number (bn.js throws on a negative one)
Shln(a, n) == a * 2^n

Shrn(a, n) == a \div 2^n

RECURSIVE MulDivRec(_, _, _)
\* <<quotient, remainder>> of a * b by c, for a, b >= 0 and 0 < c < 2^30,
\* computed bit by bit so that no intermediate value leaves 32 bits
MulDivRec(a, b, c) ==
    IF b = 0 THEN <<0, 0>>
    ELSE LET h == MulDivRec(a, b \div 2, c)
             add == IF b % 2 = 1 THEN a ELSE 0
             r == ((2 * h[2]) % c) + (add % c)
         IN  <<2 * h[1] + ((2 * h[2]) \div c) + (add \div c) + (r \div c), r % c>>

\* floor(a * b / c) for a, b >= 0 and c > 0
MulDivFloor(a, b, c) == IF a < b THEN MulDivRec(b, a, c)[1] ELSE MulDivRec(a, b, c)[1]

\* a.mul(b).div(c): the quotient of the product truncated toward zero
BNMulDiv(a, b, c) ==
    IF ((a >= 0) = (b >= 0)) = (c > 0) THEN MulDivFloor(Abs(a), Abs(b), Abs(c))
    ELSE -MulDivFloor(Abs(a), Abs(b), Abs(c))

\* a.mul(b).add(c).sub(1).div(c): the quotient of a * b + c - 1 by c,
\* truncated toward zero; it is the ceiling of a * b / c when neither is
\* negative
BNMulDivUp(a, b, c) ==
    LET h == MulDivRec(Abs(a), Abs(b), Abs(c))
        sign == IF (a >= 0) = (b >= 0) THEN 1 ELSE -1
        e == sign * h[2] + c - 1
        floorQ == sign * h[1] + (e \div Abs(c))
        truncQ == IF floorQ >= 0 \/ e % Abs(c) = 0 THEN floorQ ELSE floorQ + 1
    IN  IF c > 0 THEN truncQ ELSE -truncQ

\* Decimal.floor of a * b / c, for any signs, c # 0
FloorMulDiv(a, b, c) ==
    LET h == MulDivRec(Abs(a), Abs(b), Abs(c))
    IN  IF ((a >= 0) = (b >= 0)) = (c > 0) THEN h[1]
        ELSE -(h[1] + (IF h[2] = 0 THEN 0 ELSE 1))

\* the result of an operation that may throw
Ok(v) == [ok |-> TRUE, val |-> v, err |-> ""]

Fail(msg) == [ok |-> FALSE, val |-> 0, err |-> msg]

DivByZero == "bn.js: division by zero"

NegativeShift == "bn.js: shift of a negative number"

RECURSIVE SqrtSearch(_, _, _)
SqrtSearch(n, lo, hi) ==
    IF lo >= hi THEN lo
    ELSE LET mid == (lo + hi + 1) \div 2
         IN  IF mid * mid <= n THEN SqrtSearch(n, mid, hi)
             ELSE SqrtSearch(n, lo, mid - 1)

\* Decimal.sqrt followed by floor: the integer square root
ISqrt(n) == SqrtSearch(n, 0, 46340)

Pow10(d) == 10^d

\* the width of a token amount (64 bits in the program)
SupplyBits == 10

RECURSIVE BitLength(_)
\* BN.bitLength: the bits of the magnitude, 0 for zero
BitLength(a) == IF a = 0 THEN 0 ELSE 1 + BitLength(Abs(a) \div 2)

MathOverflow == "Math overflow"

\* GetTotalTokenSupply without the test for a negative total
GetTotalTokenSupplyUnsigned(swapBaseAmount, migrationBaseThreshold, lockedVestingParams) ==
    LET totalCirculatingAmount == swapBaseAmount + migrationBaseThreshold
        totalLockedVestingAmount ==
            lockedVestingParams.cliffUnlockAmount
                + lockedVestingParams.amountPerPeriod * lockedVestingParams.numberOfPeriod
        totalAmount == totalCirculatingAmount + totalLockedVestingAmount
    IN  IF BitLength(totalAmount) > SupplyBits THEN Fail(MathOverflow)
        ELSE Ok(totalAmount)

\* getTotalTokenSupply: the circulating amount and the locked vesting amount
\* added up, unless the total is negative or longer than a token amount
GetTotalTokenSupply(swapBaseAmount, migrationBaseThreshold, lockedVestingParams) ==
    LET totalCirculatingAmount == swapBaseAmount + migrationBaseThreshold
        totalLockedVestingAmount ==
            lockedVestingParams.cliffUnlockAmount
                + lockedVestingParams.amountPerPeriod * lockedVestingParams.numberOfPeriod
        totalAmount == totalCirculatingAmount + totalLockedVestingAmount
    IN  IF totalAmount < 0 \/ BitLength(totalAmount) > SupplyBits THEN Fail(MathOverflow)
        ELSE Ok(totalAmount)

\* IsDefaultLockedVesting looking at the amounts only
IsDefaultLockedVestingOfAmounts(lockedVesting) ==
    /\ lockedVesting.amountPerPeriod = 0
    /\ lockedVesting.numberOfPeriod = 0
    /\ lockedVesting.cliffUnlockAmount = 0

\* isDefaultLockedVesting: every field of the schedule is zero
IsDefaultLockedVesting(lockedVesting) ==
    /\ lockedVesting.amountPerPeriod = 0
    /\ lockedVesting.cliffDurationFromMigrationTime = 0
    /\ lockedVesting.frequency = 0
    /\ lockedVesting.numberOfPeriod = 0
    /\ lockedVesting.cliffUnlockAmount = 0

\* the width of an integer a JavaScript number holds exactly (53 bits in
\* the program)
SafeIntegerBits == 7

UnsafeNumber == "Number can only safely store up to 53 bits"

\* BN.toNumber, which throws on a number longer than the safe width
ToNumber(a) == IF BitLength(a) > SafeIntegerBits THEN Fail(UnsafeNumber) ELSE Ok(a)

\* a JavaScript number: the fraction num / den with den > 0, an infinity,
\* or NaN
Finite(num, den) == [kind |-> "finite", num |-> num, den |-> den]

NaN == [kind |-> "NaN", num |-> 0, den |-> 1]

Infinity == [kind |-> "Infinity", num |-> 1, den |-> 1]

NegativeInfinity == [kind |-> "-Infinity", num |-> -1, den |-> 1]

\* a / b on JavaScript numbers with integer values: 0 / 0 is NaN and
\* anything else over 0 is an infinity
NumberDivide(a, b) ==
    IF b = 0 THEN (IF a = 0 THEN NaN ELSE IF a > 0 THEN Infinity ELSE NegativeInfinity)
    ELSE IF b > 0 THEN Finite(a, b)
    ELSE Finite(-a, -b)

\* Math.max(x, n) and Math.min(x, n) for an integer n: NaN if x is NaN
MathMax(x, n) ==
    IF x.kind = "NaN" \/ x.kind = "Infinity" THEN x
    ELSE IF x.kind = "-Infinity" THEN Finite(n, 1)
    ELSE IF x.num >= n * x.den THEN x ELSE Finite(n, 1)

MathMin(x, n) ==
    IF x.kind = "NaN" \/ x.kind = "-Infinity" THEN x
    ELSE IF x.kind = "Infinity" THEN Finite(n, 1)
    ELSE IF x.num <= n * x.den THEN x ELSE Finite(n, 1)

PoolNotFound == "Pool not found"

\* getCurveProgress of a pool as fetched, with the migration quote threshold
\* of its configuration: the quote reserve over the threshold, as JavaScript
\* numbers, brought between 0 and 1
GetCurveProgress(poolState) ==
    IF ~poolState.exists THEN Fail(PoolNotFound)
    ELSE LET quoteReserveNum == ToNumber(poolState.quoteReserve)
             thresholdNum == ToNumber(poolState.migrationQuoteThreshold)
         IN  IF ~quoteReserveNum.ok THEN quoteReserveNum
             ELSE IF ~thresholdNum.ok THEN thresholdNum
             ELSE Ok(MathMin(MathMax(NumberDivide(quoteReserveNum.val,
                                                  thresholdNum.val), 0), 1))

(***************************************************************************)
(* Program constants.                                                      *)
(***************************************************************************)
BASIS_POINT_MAX == 10000

FEE_DENOMINATOR == 1000000000

\* sqrt prices run from 2^-(ResolutionBits/2) to 2^(ResolutionBits/2)
\* (from about 2^-32 to about 2^32 in Q64.64)
MIN_SQRT_PRICE == 2^(ResolutionBits - ResolutionBits \div 2)

MAX_SQRT_PRICE == 2^(ResolutionBits + ResolutionBits \div 2)

MET_DAMM == 0

MET_DAMM_V2 == 1

(***************************************************************************)
(* math/curve.ts: constant-product segment arithmetic.                     *)
(***************************************************************************)
\* The prices of math/curve.ts are unsigned: a difference of prices that
\* would be negative is an error.
SubtractionOverflow == "SafeMath: subtraction overflow"

\* L = baseAmount * sqrtMaxPrice * sqrtPrice / (sqrtMaxPrice - sqrtPrice)
GetInitialLiquidityFromDeltaBase(baseAmount, sqrtMaxPrice, sqrtPrice) ==
    IF sqrtPrice > sqrtMaxPrice THEN Fail(SubtractionOverflow)
    ELSE IF sqrtMaxPrice = sqrtPrice THEN Fail(DivByZero)
    ELSE Ok(BNMulDiv(baseAmount * sqrtPrice, sqrtMaxPrice, sqrtMaxPrice - sqrtPrice))

\* L = (quoteAmount << 2*RESOLUTION) / (sqrtPrice - sqrtMinPrice)
GetInitialLiquidityFromDeltaQuote(quoteAmount, sqrtMinPrice, sqrtPrice) ==
    IF sqrtMinPrice > sqrtPrice THEN Fail(SubtractionOverflow)
    ELSE IF quoteAmount < 0 THEN Fail(NegativeShift)
    ELSE IF sqrtPrice = sqrtMinPrice THEN Fail(DivByZero)
    ELSE Ok(BNDiv(Shln(quoteAmount, 2 * ResolutionBits), sqrtPrice - sqrtMinPrice))

\* base = ceil(L * (upper - lower) / (lower * upper))
GetDeltaAmountBase(lowerSqrtPrice, upperSqrtPrice, liquidity) ==
    LET denominator == lowerSqrtPrice * upperSqrtPrice
    IN  IF denominator = 0 THEN Fail(DivByZero)
        ELSE Ok(BNMulDivUp(liquidity, upperSqrtPrice - lowerSqrtPrice, denominator))

\* quote = ceil(L * (upper - lower) / 2^(2*RESOLUTION))
GetDeltaAmountQuoteUp(lowerSqrtPrice, upperSqrtPrice, liquidity) ==
    IF lowerSqrtPrice > upperSqrtPrice THEN Fail(SubtractionOverflow)
    ELSE Ok(BNMulDivUp(liquidity, upperSqrtPrice - lowerSqrtPrice,
                       2^(2 * ResolutionBits)))

\* the price reached by paying amountIn of quote token into liquidity
GetNextSqrtPriceFromInput(sqrtPrice, liquidity, amountIn) ==
    IF sqrtPrice = 0 \/ liquidity = 0 THEN Fail("price or liquidity cannot be zero")
    ELSE IF amountIn < 0 THEN Fail(NegativeShift)
    ELSE Ok(sqrtPrice + BNDiv(Shln(amountIn, 2 * ResolutionBits), liquidity))

(***************************************************************************)
(* helpers/common.ts: prices, vesting, and the reverse calculation of the  *)
(* supply a curve needs.  A curve is a sequence of                         *)
(* [sqrtPrice, liquidity] records in list order.                           *)
(***************************************************************************)
\* new BN(x) for a JavaScript number x held as floor(x * 2^NumberBits)
NumberToBN(x) == BNDiv(x, 2^NumberBits)

\* floor(sqrt(price * 10^(quote - base)) * 2^RESOLUTION), the price being
\* the fraction priceNum / priceDen
GetSqrtPriceFromPrice(priceNum, priceDen, tokenBaseDecimal, tokenQuoteDecimal) ==
    ISqrt(MulDivFloor(2^(2 * ResolutionBits), priceNum * Pow10(tokenQuoteDecimal),
                      priceDen * Pow10(tokenBaseDecimal)))

GetSqrtPriceFromMarketCap(marketCap, totalSupply, tokenBaseDecimal, tokenQuoteDecimal) ==
    GetSqrtPriceFromPrice(marketCap, totalSupply, tokenBaseDecimal, tokenQuoteDecimal)

\* Decimal -> BN: the floor, for a Decimal given as the fraction num / den
ConvertDecimalToBN(num, den) == num \div den

\* GetLockedVesting leaving the cliff unlock amount in whole tokens
GetLockedVestingCliffInTokens(totalVestingAmount, numberOfPeriod, amountPerPeriod, cliffDurationFromMigrationTime, frequency, tokenBaseDecimal) ==
    [amountPerPeriod |-> amountPerPeriod * Pow10(tokenBaseDecimal),
     cliffDurationFromMigrationTime |-> cliffDurationFromMigrationTime,
     frequency |-> frequency,
     numberOfPeriod |-> numberOfPeriod,
     cliffUnlockAmount |-> totalVestingAmount - amountPerPeriod * numberOfPeriod]

\* the vesting schedule derived from a target total and an amount per
\* period, both in whole tokens: the amounts in raw units, and at the cliff
\* what the periods leave of the total
GetLockedVesting(totalVestingAmount, numberOfPeriod, amountPerPeriod, cliffDurationFromMigrationTime, frequency, tokenBaseDecimal) ==
    LET totalAmount == totalVestingAmount * Pow10(tokenBaseDecimal)
        amountPerPeriodBN == amountPerPeriod * Pow10(tokenBaseDecimal)
    IN  [amountPerPeriod |-> amountPerPeriodBN,
         cliffDurationFromMigrationTime |-> cliffDurationFromMigrationTime,
         frequency |-> frequency,
         numberOfPeriod |-> numberOfPeriod,
         cliffUnlockAmount |-> totalAmount - amountPerPeriodBN * numberOfPeriod]

GetTotalVestingAmount(lockedVesting) ==
    lockedVesting.cliffUnlockAmount
        + lockedVesting.amountPerPeriod * lockedVesting.numberOfPeriod

\* the base token that pairs with the migration quote threshold at the
\* migration price, in the pool the curve migrates to
GetMigrationBaseToken(migrationQuoteThreshold, sqrtMigrationPrice, migrationOption) ==
    IF migrationOption = MET_DAMM
    THEN LET price == sqrtMigrationPrice * sqrtMigrationPrice
             quote == Shln(migrationQuoteThreshold, 2 * ResolutionBits)
         IN  IF migrationQuoteThreshold < 0 THEN Fail(NegativeShift)
             ELSE IF price = 0 THEN Fail(DivByZero)
             ELSE Ok(quote \div price + (IF quote % price = 0 THEN 0 ELSE 1))
    ELSE LET liquidity == GetInitialLiquidityFromDeltaQuote(
                              migrationQuoteThreshold, MIN_SQRT_PRICE, sqrtMigrationPrice)
         IN  IF ~liquidity.ok THEN liquidity
             ELSE GetDeltaAmountBase(sqrtMigrationPrice, MAX_SQRT_PRICE, liquidity.val)

RECURSIVE MigrationPriceFrom(_, _, _, _)
\* the loop of getMigrationThresholdPrice over segments i = 2 .. Len(curve)
MigrationPriceFrom(i, amountLeft, nextSqrtPrice, curve) ==
    IF i > Len(curve)
    THEN IF amountLeft # 0 THEN Fail("Not enough liquidity for migration")
         ELSE Ok(nextSqrtPrice)
    ELSE LET maxAmount == GetDeltaAmountQuoteUp(nextSqrtPrice, curve[i].sqrtPrice,
                                                curve[i].liquidity)
         IN  IF ~maxAmount.ok THEN maxAmount
             ELSE IF maxAmount.val > amountLeft
             THEN GetNextSqrtPriceFromInput(nextSqrtPrice, curve[i].liquidity, amountLeft)
             ELSE MigrationPriceFrom(i + 1, amountLeft - maxAmount.val,
                                     curve[i].sqrtPrice, curve)

\* the sqrt price at which the quote paid in along the curve reaches the
\* migration threshold
GetMigrationThresholdPrice(migrationThreshold, sqrtStartPrice, curve) ==
    IF Len(curve) = 0 THEN Fail("Curve is empty")
    ELSE LET totalAmount == GetDeltaAmountQuoteUp(sqrtStartPrice, curve[1].sqrtPrice,
                                                  curve[1].liquidity)
         IN  IF ~totalAmount.ok THEN totalAmount
             ELSE IF totalAmount.val > migrationThreshold
             THEN GetNextSqrtPriceFromInput(sqrtStartPrice, curve[1].liquidity,
                                            migrationThreshold)
             ELSE MigrationPriceFrom(2, migrationThreshold - totalAmount.val,
                                     curve[1].sqrtPrice, curve)

RECURSIVE BaseTokenFrom(_, _, _, _, _)
\* the loop of getBaseTokenForSwap from segment i on
BaseTokenFrom(i, totalAmount, sqrtStartPrice, sqrtMigrationPrice, curve) ==
    IF i > Len(curve) THEN Ok(totalAmount)
    ELSE LET lowerSqrtPrice == IF i = 1 THEN sqrtStartPrice ELSE curve[i - 1].sqrtPrice
         IN  IF curve[i].sqrtPrice > sqrtMigrationPrice
             THEN LET deltaAmount == GetDeltaAmountBase(lowerSqrtPrice, sqrtMigrationPrice,
                                                        curve[i].liquidity)
                  IN  IF ~deltaAmount.ok THEN deltaAmount
                      ELSE Ok(totalAmount + deltaAmount.val)
             ELSE LET deltaAmount == GetDeltaAmountBase(lowerSqrtPrice, curve[i].sqrtPrice,
                                                        curve[i].liquidity)
                  IN  IF ~deltaAmount.ok THEN deltaAmount
                      ELSE BaseTokenFrom(i + 1, totalAmount + deltaAmount.val,
                                         sqrtStartPrice, sqrtMigrationPrice, curve)

\* the base token sold along the curve from the start price up to the
\* migration price
GetBaseTokenForSwap(sqrtStartPrice, sqrtMigrationPrice, curve) ==
    BaseTokenFrom(1, 0, sqrtStartPrice, sqrtMigrationPrice, curve)

\* the swap amount plus a 25% buffer, capped by what the curve holds
GetSwapAmountWithBuffer(swapBaseAmount, sqrtStartPrice, curve) ==
    LET swapAmountBuffer == swapBaseAmount + BNDiv(swapBaseAmount * 25, 100)
        maxBaseAmountOnCurve == GetBaseTokenForSwap(sqrtStartPrice, MAX_SQRT_PRICE, curve)
    IN  IF ~maxBaseAmountOnCurve.ok THEN maxBaseAmountOnCurve
        ELSE Ok(Min(swapAmountBuffer, maxBaseAmountOnCurve.val))

\* swap amount with buffer + migration amount + vesting + leftover
GetTotalSupplyFromCurve(migrationQuoteThreshold, sqrtStartPrice, curve, lockedVesting, migrationOption, leftover) ==
    LET sqrtMigrationPrice ==
            GetMigrationThresholdPrice(migrationQuoteThreshold, sqrtStartPrice, curve)
        swapBaseAmount ==
            GetBaseTokenForSwap(sqrtStartPrice, sqrtMigrationPrice.val, curve)
        swapBaseAmountBuffer ==
            GetSwapAmountWithBuffer(swapBaseAmount.val, sqrtStartPrice, curve)
        migrationBaseAmount ==
            GetMigrationBaseToken(migrationQuoteThreshold, sqrtMigrationPrice.val,
                                  migrationOption)
    IN  IF ~sqrtMigrationPrice.ok THEN sqrtMigrationPrice
        ELSE IF ~swapBaseAmount.ok THEN swapBaseAmount
        ELSE IF ~swapBaseAmountBuffer.ok THEN swapBaseAmountBuffer
        ELSE IF ~migrationBaseAmount.ok THEN migrationBaseAmount
        ELSE Ok(swapBaseAmountBuffer.val + migrationBaseAmount.val
                    + GetTotalVestingAmount(lockedVesting) + leftover)

\* a curve builder's answer: the start price and the segments
CurveOk(sqrtStartPrice, curve) ==
    [ok |-> TRUE, err |-> "", sqrtStartPrice |-> sqrtStartPrice, curve |-> curve]

CurveFail(msg) == [ok |-> FALSE, err |-> msg, sqrtStartPrice |-> 0, curve |-> <<>>]

\* one segment from the start price implied by the swap amount up to the
\* migration price
GetFirstCurve(migrationSqrtPrice, migrationAmount, swapAmount, migrationQuoteThreshold) ==
    IF swapAmount = 0 THEN CurveFail(DivByZero)
    ELSE LET sqrtStartPrice == BNDiv(migrationSqrtPrice * migrationAmount, swapAmount)
             liquidityFromBase == GetInitialLiquidityFromDeltaBase(
                                      swapAmount, migrationSqrtPrice, sqrtStartPrice)
             liquidityFromQuote == GetInitialLiquidityFromDeltaQuote(
                                       migrationQuoteThreshold, sqrtStartPrice,
                                       migrationSqrtPrice)
         IN  IF ~liquidityFromBase.ok THEN CurveFail(liquidityFromBase.err)
             ELSE IF ~liquidityFromQuote.ok THEN CurveFail(liquidityFromQuote.err)
             ELSE CurveOk(sqrtStartPrice,
                          <<[sqrtPrice |-> migrationSqrtPrice,
                             liquidity |-> Min(liquidityFromBase.val,
                                               liquidityFromQuote.val)]>>)

\* two segments that meet at the geometric mean of the initial and the
\* migration price; l0 and l1 solve
\*   l0 * (1/p0 - 1/p1) + l1 * (1/p1 - 1/p2) = swapAmount
\*   l0 * (p1 - p0)     + l1 * (p2 - p1)     = migrationQuoteThreshold << 2*RESOLUTION
GetTwoCurve(migrationSqrtPrice, initialSqrtPrice, swapAmount, migrationQuoteThreshold) ==
    LET p0 == initialSqrtPrice
        p2 == migrationSqrtPrice
        p1 == ISqrt(p0 * p2)
        c1 == swapAmount
        c2 == migrationQuoteThreshold * 2^(2 * ResolutionBits)
    IN  IF p0 = p1 \/ p1 = p2 \/ p0 = 0 THEN CurveFail("Decimal: division by zero")
        ELSE CurveOk(p0,
                 <<[sqrtPrice |-> p1,
                    liquidity |-> FloorMulDiv(c1 * p1 * p2 - c2, p0,
                                              (p1 - p0) * (p2 - p0))],
                   [sqrtPrice |-> p2,
                    liquidity |-> FloorMulDiv(c2 - c1 * p0 * p1, p2,
                                              (p2 - p1) * (p2 - p0))]>>)

(***************************************************************************)
(* math/feeMath.ts and the fee helpers of helpers/common.ts: the base fee  *)
(* scheduler.  A decay factor is a fixed-point fraction with FeeScaleBits  *)
(* fractional bits (64 in the program).                                    *)
(***************************************************************************)
LINEAR == 0

EXPONENTIAL == 1

\* 1.0 as a fixed-point decay factor
FeeOne == 2^FeeScaleBits

RECURSIVE FeePow(_, _, _)
\* base^exp by repeated squaring, each product shifted back to FeeScaleBits;
\* result is the accumulator
FeePow(base, exp, result) ==
    IF exp = 0 THEN result
    ELSE FeePow(MulDivFloor(base, base, FeeOne), exp \div 2,
                IF exp % 2 = 1 THEN MulDivFloor(result, base, FeeOne) ELSE result)

\* GetFeeInPeriod that counts the periods from 1: it decays at period 0
GetFeeInPeriodFromFirstPeriod(cliffFeeNumerator, reductionFactor, passedPeriod) ==
    IF reductionFactor = 0 THEN cliffFeeNumerator
    ELSE LET bps == MulDivFloor(reductionFactor, FeeOne, BASIS_POINT_MAX)
             base == FeeOne - bps
         IN  MulDivFloor(FeePow(base, passedPeriod + 1, FeeOne), cliffFeeNumerator,
                         FeeOne)

\* exponential mode: cliffFeeNumerator * (1 - reductionFactor / BASIS_POINT_MAX)^period
GetFeeInPeriod(cliffFeeNumerator, reductionFactor, passedPeriod) ==
    IF reductionFactor = 0 THEN cliffFeeNumerator
    ELSE LET bps == MulDivFloor(reductionFactor, FeeOne, BASIS_POINT_MAX)
             base == FeeOne - bps
         IN  MulDivFloor(FeePow(base, passedPeriod, FeeOne), cliffFeeNumerator, FeeOne)

\* GetLinearFee without its floor at zero: the fee goes negative once
\* period * reductionFactor passes the cliff fee
GetLinearFeeUnfloored(cliffFeeNumerator, reductionFactor, period) ==
    cliffFeeNumerator - period * reductionFactor

\* linear mode: max(0, cliffFeeNumerator - period * reductionFactor)
GetLinearFee(cliffFeeNumerator, reductionFactor, period) ==
    Max(0, cliffFeeNumerator - period * reductionFactor)

\* the schedule's fee at a period, in either mode
FeeAtPeriod(baseFee, period) ==
    IF baseFee.feeSchedulerMode = LINEAR
    THEN GetLinearFee(baseFee.cliffFeeNumerator, baseFee.reductionFactor, period)
    ELSE GetFeeInPeriod(baseFee.cliffFeeNumerator, baseFee.reductionFactor, period)

\* GetPeriod without its cap at the last period: the fee keeps decaying
GetPeriodUncapped(baseFee, currentPoint, activationPoint) ==
    IF currentPoint < activationPoint THEN baseFee.numberOfPeriod
    ELSE (currentPoint - activationPoint) \div baseFee.periodFrequency

\* GetPeriod that takes a point before activation for period 0, the cliff
GetPeriodCliffBeforeActivation(baseFee, currentPoint, activationPoint) ==
    IF currentPoint < activationPoint THEN 0
    ELSE Min(baseFee.numberOfPeriod,
             (currentPoint - activationPoint) \div baseFee.periodFrequency)

\* the period a point in time falls in: the last one before activation,
\* else the elapsed periods capped at the last one
GetPeriod(baseFee, currentPoint, activationPoint) ==
    IF currentPoint < activationPoint THEN baseFee.numberOfPeriod
    ELSE Min(baseFee.numberOfPeriod,
             (currentPoint - activationPoint) \div baseFee.periodFrequency)

GetCurrentBaseFeeNumerator(baseFee, currentPoint, activationPoint) ==
    IF baseFee.periodFrequency = 0 THEN baseFee.cliffFeeNumerator
    ELSE FeeAtPeriod(baseFee, GetPeriod(baseFee, currentPoint, activationPoint))

\* CalculateVolatilityReference keeping the previous value up to and
\* including the filter period
CalculateVolatilityReferenceFilterInclusive(timeElapsed, filterPeriod, decayPeriod, reductionFactor, previousVolatilityAccumulator) ==
    IF timeElapsed <= filterPeriod THEN previousVolatilityAccumulator * BASIS_POINT_MAX
    ELSE IF timeElapsed >= decayPeriod THEN 0
    ELSE reductionFactor * previousVolatilityAccumulator

\* calculateVolatilityReference: the previous accumulator within the filter
\* period, 0 from the decay period on, else (reductionFactor / 10000) times
\* the previous accumulator.  The result, a JavaScript number, is held
\* exactly in ten-thousandths.
CalculateVolatilityReference(timeElapsed, filterPeriod, decayPeriod, reductionFactor, previousVolatilityAccumulator) ==
    IF timeElapsed < filterPeriod THEN previousVolatilityAccumulator * BASIS_POINT_MAX
    ELSE IF timeElapsed >= decayPeriod THEN 0
    ELSE reductionFactor * previousVolatilityAccumulator

\* calculateVolatilityAccumulator: the reference plus the distance of the
\* index reference from the bin k away from the active one
CalculateVolatilityAccumulator(volatilityReference, indexReference, activeId, k) ==
    volatilityReference + Abs(indexReference - (activeId + k))

\* calculateVariableFee: variableFeeControl * (volatilityAccumulator * binStep)^2
CalculateVariableFee(variableFeeControl, volatilityAccumulator, binStep) ==
    variableFeeControl * (volatilityAccumulator * binStep) * (volatilityAccumulator * binStep)

\* the targetRatio calculateDynamicFeeParameters takes when it is given
\* none, 0.2; a ratio is held as <<numerator, denominator>>
DefaultTargetRatio == <<1, 5>>

\* CalculateDynamicFeeParameters taking the ratio of the basis points
\* instead of the ratio of the fee numerator
CalculateDynamicFeeParametersOfBasisPoints(baseFeeBps, targetRatio) ==
    [binStep |-> 1,
     binStepU128 |-> "1844674407370955",
     filterPeriod |-> 10,
     decayPeriod |-> 120,
     reductionFactor |-> 5000,
     variableFeeControl |-> FloorMulDiv(baseFeeBps, targetRatio[1], targetRatio[2]),
     maxVolatilityAccumulator |-> 100000]

\* calculateDynamicFeeParameters: the parameters of a dynamic fee whose
\* variableFeeControl is Math.floor(baseFee * targetRatio), baseFee being
\* baseFeeBps * 100000
CalculateDynamicFeeParameters(baseFeeBps, targetRatio) ==
    LET baseFee == baseFeeBps * 100000
        variableFeeControl == FloorMulDiv(baseFee, targetRatio[1], targetRatio[2])
    IN  [binStep |-> 1,
         binStepU128 |-> "1844674407370955",
         filterPeriod |-> 10,
         decayPeriod |-> 120,
         reductionFactor |-> 5000,
         variableFeeControl |-> variableFeeControl,
         maxVolatilityAccumulator |-> 100000]

\* ------------------------------------------------------------------
\* Token accounts and instructions.
\* ------------------------------------------------------------------

NATIVE_MINT == "So11111111111111111111111111111111111111112"

TOKEN_PROGRAM_ID == "TokenkegQfeZyiNwAJbNbGKPFXCWuBvf9Ss623VQ5DA"

TOKEN_2022_PROGRAM_ID == "TokenzQdBNbLqP5VEhdkAS6EPFLC1PHnBqCXEpPxuEb"

\* the address derived from the wallet, the token program and the mint
FindAssociatedTokenAddress(walletAddress, tokenMintAddress, tokenProgramId) ==
    [wallet |-> walletAddress, tokenProgram |-> tokenProgramId, mint |-> tokenMintAddress]

NoInstruction == [kind |-> "none"]

CreateAssociatedTokenAccountIdempotentInstruction(payer, associatedToken, owner, mint, programId) ==
    [kind |-> "createAssociatedTokenAccountIdempotent", payer |-> payer,
     account |-> associatedToken, owner |-> owner, mint |-> mint,
     programId |-> programId]

\* the token types of a mint
SPL == "SPL"

Token2022 == "Token2022"

GetTokenProgram(tokenType) ==
    IF tokenType = SPL THEN TOKEN_PROGRAM_ID ELSE TOKEN_2022_PROGRAM_ID

IsNativeSol(mint) == mint = NATIVE_MINT

\* the wallet's associated token account of the mint under the token program
GetAssociatedTokenAddressSync(mint, owner) ==
    FindAssociatedTokenAddress(owner, mint, TOKEN_PROGRAM_ID)

\* the transfer of the lamports to the account, then the token program's
\* instruction 17 (sync native) on it
WrapSOLInstruction(from, to, amount) ==
    <<[kind |-> "transfer", fromPubkey |-> from, toPubkey |-> to, lamports |-> amount],
      [kind |-> "syncNative", account |-> to, programId |-> TOKEN_PROGRAM_ID]>>

CreateCloseAccountInstruction(account, destination, authority, programId) ==
    [kind |-> "closeAccount", account |-> account, destination |-> destination,
     authority |-> authority, programId |-> programId]

\* the instruction closing the owner's wrapped SOL account
UnwrapSOLInstruction(owner) ==
    LET wSolATAAccount == GetAssociatedTokenAddressSync(NATIVE_MINT, owner)
    IN  CreateCloseAccountInstruction(wSolATAAccount, owner, owner, TOKEN_PROGRAM_ID)

\* the answers of connection.getAccountInfo
AccountFound == "account"

AccountMissing == "null"

AccountInfoRejected == "getAccountInfo: rejected"

\* the creation of the token account unless getAccountInfo found it
CreateUnlessFound(preInstructions, accountInfo, owner, tokenAccount, mint, tokenProgram) ==
    IF accountInfo = AccountMissing
    THEN Append(preInstructions,
                CreateAssociatedTokenAccountIdempotentInstruction(
                    owner, tokenAccount, owner, mint, tokenProgram))
    ELSE preInstructions

\* the post-instructions of a swap whose input only is looked at
PostInstructionsOfInput(isSOLInput, isSOLOutput, owner) ==
    IF isSOLInput THEN <<UnwrapSOLInstruction(owner)>> ELSE <<>>

\* the post-instructions of a swap: the unwrapping of SOL
PostInstructions(isSOLInput, isSOLOutput, owner) ==
    IF isSOLInput \/ isSOLOutput THEN <<UnwrapSOLInstruction(owner)>> ELSE <<>>

\* the instructions of a swap before launch, from the swap's parameters, the
\* pool's mints and what getAccountInfo answers for the two token accounts
GetBuyInstructionsPreLaunch(call, inputTokenAccountInfo, outputTokenAccountInfo) ==
    LET owner == call.swapParam.owner
        inputMint == IF call.swapParam.swapBaseForQuote THEN call.baseMint
                     ELSE call.quoteMint
        outputMint == IF call.swapParam.swapBaseForQuote THEN call.quoteMint
                      ELSE call.baseMint
        inputTokenProgram ==
            GetTokenProgram(IF call.swapParam.swapBaseForQuote THEN call.baseMintType
                            ELSE call.quoteMintType)
        outputTokenProgram ==
            GetTokenProgram(IF call.swapParam.swapBaseForQuote THEN call.quoteMintType
                            ELSE call.baseMintType)
        isSOLInput == IsNativeSol(inputMint)
        isSOLOutput == IsNativeSol(outputMint)
        inputTokenAccount ==
            FindAssociatedTokenAddress(owner, inputMint, inputTokenProgram)
        outputTokenAccount ==
            FindAssociatedTokenAddress(owner, outputMint, outputTokenProgram)
        accounts ==
            [inputTokenAccount |-> inputTokenAccount,
             outputTokenAccount |-> outputTokenAccount,
             baseMint |-> call.baseMint, quoteMint |-> call.quoteMint,
             payer |-> owner,
             tokenBaseProgram |-> IF call.swapParam.swapBaseForQuote
                                  THEN inputTokenProgram ELSE outputTokenProgram,
             tokenQuoteProgram |-> IF call.swapParam.swapBaseForQuote
                                   THEN outputTokenProgram ELSE inputTokenProgram]
        withInput == CreateUnlessFound(<<>>, inputTokenAccountInfo, owner,
                                       inputTokenAccount, inputMint, inputTokenProgram)
        withOutput == CreateUnlessFound(withInput, outputTokenAccountInfo, owner,
                                        outputTokenAccount, outputMint,
                                        outputTokenProgram)
        preInstructions ==
            IF isSOLInput
            THEN withOutput \o WrapSOLInstruction(owner, inputTokenAccount,
                                                  call.swapParam.amountIn)
            ELSE withOutput
        postInstructions == PostInstructions(isSOLInput, isSOLOutput, owner)
        instruction == [kind |-> "swap", amountIn |-> call.swapParam.amountIn,
                        minimumAmountOut |-> call.swapParam.minimumAmountOut,
                        accounts |-> accounts]
    IN  IF inputTokenAccountInfo = AccountInfoRejected THEN Fail(AccountInfoRejected)
        ELSE IF outputTokenAccountInfo = AccountInfoRejected
        THEN Fail(AccountInfoRejected)
        ELSE Ok(preInstructions \o <<instruction>> \o postInstructions)

\* the associated token account of the mint, and the instruction that
\* creates it unless the account exists
GetOrCreateATAInstruction(tokenMint, owner, payer, tokenProgram, accountExists) ==
    LET toAccount == FindAssociatedTokenAddress(owner, tokenMint, tokenProgram)
    IN  [ataPubkey |-> toAccount,
         ix |-> IF accountExists THEN NoInstruction
                ELSE CreateAssociatedTokenAccountIdempotentInstruction(
                         payer, toAccount, owner, tokenMint, tokenProgram)]

\* a lookup that has not settled
Unsettled ==
    [ataPubkey |-> FindAssociatedTokenAddress("", "", ""), ix |-> NoInstruction]

LookupRejected == "getOrCreateATAInstruction: rejected"

\* the values of the promises in the order they settled in
PromiseAllInSettlementOrder(promises, settled) ==
    [i \in 1..Len(promises) |-> promises[settled[i]]]

\* Promise.all: the values of the promises in the order of the promises,
\* whichever settled first
PromiseAll(promises, settled) == promises

\* instruction && instructions.push(instruction)
PushIfPresent(instructions, ix) ==
    IF ix = NoInstruction THEN instructions ELSE Append(instructions, ix)

\* prepareTokenAccounts once both lookups have settled
PrepareTokenAccounts(promises, settled) ==
    LET lookups == PromiseAll(promises, settled)
    IN  [ataTokenA |-> lookups[1].ataPubkey,
         ataTokenB |-> lookups[2].ataPubkey,
         instructions |-> PushIfPresent(PushIfPresent(<<>>, lookups[1].ix),
                                        lookups[2].ix)]

\* GetVariableFee with the scaling rounded down
GetVariableFeeRoundedDown(dynamicFee, volatilityTracker) ==
    IF dynamicFee.initialized = 0 THEN 0
    ELSE IF volatilityTracker.volatilityAccumulator = 0 THEN 0
    ELSE LET volatilityTimesBinStep ==
                 volatilityTracker.volatilityAccumulator * dynamicFee.binStep
         IN  (volatilityTimesBinStep * volatilityTimesBinStep
                  * dynamicFee.variableFeeControl) \div 10^VariableFeeScaleDigits

\* the variable fee: none while the dynamic fee is not initialized or there
\* is no volatility, else variableFeeControl * (volatilityAccumulator *
\* binStep)^2 scaled down, rounding up
GetVariableFee(dynamicFee, volatilityTracker) ==
    IF dynamicFee.initialized = 0 THEN 0
    ELSE IF volatilityTracker.volatilityAccumulator = 0 THEN 0
    ELSE LET volatilityTimesBinStep ==
                 volatilityTracker.volatilityAccumulator * dynamicFee.binStep
             vFee == volatilityTimesBinStep * volatilityTimesBinStep
                         * dynamicFee.variableFeeControl
             scaleFactor == 10^VariableFeeScaleDigits
         IN  BNDiv(vFee + (scaleFactor - 1), scaleFactor)

\* (bps * FEE_DENOMINATOR) / BASIS_POINT_MAX, which is exact
BpsToFeeNumerator(bps) == bps * (FEE_DENOMINATOR \div BASIS_POINT_MAX)

\* GetMinBaseFeeBps without its clamp at zero
GetMinBaseFeeBpsUnclamped(cliffFeeNumerator, numberOfPeriod, reductionFactor, feeSchedulerMode) ==
    IF feeSchedulerMode = LINEAR
    THEN cliffFeeNumerator - numberOfPeriod * reductionFactor
    ELSE GetFeeInPeriod(cliffFeeNumerator, reductionFactor, numberOfPeriod)

\* the fee at the final period, never negative, as a JavaScript number of
\* basis points; the number is held exactly, in units of
\* BASIS_POINT_MAX / FEE_DENOMINATOR of a basis point
GetMinBaseFeeBps(cliffFeeNumerator, numberOfPeriod, reductionFactor, feeSchedulerMode) ==
    LET baseFeeNumerator ==
            IF feeSchedulerMode = LINEAR
            THEN cliffFeeNumerator - numberOfPeriod * reductionFactor
            ELSE GetFeeInPeriod(cliffFeeNumerator, reductionFactor, numberOfPeriod)
    IN  Max(0, baseFeeNumerator)

(***************************************************************************)
(* The builders' inputs and outputs.                                       *)
(***************************************************************************)
NoDynamicFee == [enabled |-> FALSE, variableFeeControl |-> 0]

NoBaseFee ==
    [cliffFeeNumerator |-> 0, numberOfPeriod |-> 0, reductionFactor |-> 0,
     periodFrequency |-> 0, feeSchedulerMode |-> LINEAR]

\* what a builder returns: the ConfigParameters fields that depend on the
\* arithmetic, and with them the call's totalDynamicSupply and totalLeftover
Config(sqrtStartPrice, curve, migrationQuoteThreshold, totalSupply, baseFee, dynamicFee, totalDynamicSupply, totalLeftover) ==
    [ok |-> TRUE, err |-> "", sqrtStartPrice |-> sqrtStartPrice, curve |-> curve,
     migrationQuoteThreshold |-> migrationQuoteThreshold,
     preMigrationTokenSupply |-> totalSupply, postMigrationTokenSupply |-> totalSupply,
     baseFee |-> baseFee, dynamicFee |-> dynamicFee,
     totalDynamicSupply |-> totalDynamicSupply, totalLeftover |-> totalLeftover]

\* a builder that throws returns nothing
Throw(msg) ==
    [ok |-> FALSE, err |-> msg, sqrtStartPrice |-> 0, curve |-> <<>>,
     migrationQuoteThreshold |-> 0,
     preMigrationTokenSupply |-> 0, postMigrationTokenSupply |-> 0,
     baseFee |-> NoBaseFee, dynamicFee |-> NoDynamicFee,
     totalDynamicSupply |-> 0, totalLeftover |-> 0]

LeftOverError == "leftOverDelta must be less than totalLeftover"

FirstPriceError == "first price is greater than initial market cap"

BothPairsError ==
    "Cannot specify both (migrationQuoteThreshold && percentageSupplyOnMigration) and (initialMarketCap && migrationMarketCap)"

NeitherPairError ==
    "Must specify either (migrationQuoteThreshold && percentageSupplyOnMigration) or (initialMarketCap && migrationMarketCap)"

\* new BN or convertDecimalToBN of Infinity or NaN
InvalidNumber == "not a finite number"

\* the base fee a builder emits from its parameters
EmittedBaseFee(p) ==
    [cliffFeeNumerator |-> BpsToFeeNumerator(p.baseFeeBps),
     numberOfPeriod |-> p.feeSchedulerParam.numberOfPeriod,
     reductionFactor |-> p.feeSchedulerParam.reductionFactor,
     periodFrequency |-> p.feeSchedulerParam.periodFrequency,
     feeSchedulerMode |-> p.feeSchedulerParam.feeSchedulerMode]

\* minBaseFeeBps: baseFeeBps, or the schedule's final fee when the schedule
\* has a period frequency
MinBaseFeeOf(p) ==
    IF p.feeSchedulerParam.periodFrequency > 0
    THEN GetMinBaseFeeBps(BpsToFeeNumerator(p.baseFeeBps),
                          p.feeSchedulerParam.numberOfPeriod,
                          p.feeSchedulerParam.reductionFactor,
                          p.feeSchedulerParam.feeSchedulerMode)
    ELSE BpsToFeeNumerator(p.baseFeeBps)

\* the dynamic fee sized from minBaseFeeBps: the variable fee control is the
\* target ratio, one fifth, of the base fee numerator
GetDynamicFeeParams(minBaseFee) ==
    [enabled |-> TRUE, variableFeeControl |-> minBaseFee \div 5]

\* the dynamic fee a builder emits: none, or the one sized from minBaseFeeBps
EmittedDynamicFee(p) ==
    IF p.dynamicFeeEnabled THEN GetDynamicFeeParams(MinBaseFeeOf(p)) ELSE NoDynamicFee

\* the sanity check on the supply a curve needs: the excess over
\* totalSupply, if any, must be less than the leftover
LeftOverCheckFails(totalDynamicSupply, totalSupply, totalLeftover) ==
    /\ totalDynamicSupply > totalSupply
    /\ ~(totalDynamicSupply - totalSupply < totalLeftover)

(***************************************************************************)
(* helpers/buildCurve.ts: buildCurve and buildCurveWithMarketCap.          *)
(***************************************************************************)
\* PushLastLiquidity with a drain segment that ends at the migration price
\* and not at MAX_SQRT_PRICE
PushLastLiquidityAtMigrationPrice(curve, lastLiquidity) ==
    IF lastLiquidity = 0 THEN curve
    ELSE Append(curve, [sqrtPrice |-> curve[Len(curve)].sqrtPrice,
                        liquidity |-> lastLiquidity])

\* PushLastLiquidity without its test for zero: a drain segment every time
PushLastLiquidityAlways(curve, lastLiquidity) ==
    Append(curve, [sqrtPrice |-> MAX_SQRT_PRICE, liquidity |-> lastLiquidity])

\* the drain segment of buildCurve: appended unless its liquidity is zero
PushLastLiquidity(curve, lastLiquidity) ==
    IF lastLiquidity # 0
    THEN Append(curve, [sqrtPrice |-> MAX_SQRT_PRICE, liquidity |-> lastLiquidity])
    ELSE curve

\* RemainingAmount that forgets the supply the curve already needs
RemainingAmountOfTotal(totalSupply, totalDynamicSupply) == totalSupply

\* what the drain segment has to absorb: the supply the curve does not need
RemainingAmount(totalSupply, totalDynamicSupply) == totalSupply - totalDynamicSupply

BuildCurve(p) ==
    LET migrationBaseSupply ==
            BNDiv(p.totalTokenSupply * NumberToBN(p.percentageSupplyOnMigration), 100)
        totalSupply == p.totalTokenSupply * Pow10(p.tokenBaseDecimal)
        migrationQuoteThresholdWithDecimals ==
            NumberToBN(p.migrationQuoteThreshold * Pow10(p.tokenQuoteDecimal))
        totalLeftover == p.leftover * Pow10(p.tokenBaseDecimal)
        \* migrationPrice = migrationQuoteThreshold / migrationBaseSupply
        migrateSqrtPrice ==
            GetSqrtPriceFromPrice(p.migrationQuoteThreshold,
                                  migrationBaseSupply * 2^NumberBits,
                                  p.tokenBaseDecimal, p.tokenQuoteDecimal)
        migrationBaseAmount ==
            GetMigrationBaseToken(migrationQuoteThresholdWithDecimals, migrateSqrtPrice,
                                  p.migrationOption)
        totalVestingAmount == GetTotalVestingAmount(p.lockedVesting)
        swapAmount ==
            totalSupply - migrationBaseAmount.val - totalVestingAmount - totalLeftover
        first ==
            GetFirstCurve(migrateSqrtPrice, migrationBaseAmount.val, swapAmount,
                          migrationQuoteThresholdWithDecimals)
        totalDynamicSupply ==
            GetTotalSupplyFromCurve(migrationQuoteThresholdWithDecimals,
                                    first.sqrtStartPrice, first.curve, p.lockedVesting,
                                    p.migrationOption, totalLeftover)
        remainingAmount == RemainingAmount(totalSupply, totalDynamicSupply.val)
        lastLiquidity ==
            GetInitialLiquidityFromDeltaBase(remainingAmount, MAX_SQRT_PRICE,
                                             migrateSqrtPrice)
    IN  IF migrationBaseSupply <= 0 THEN Throw(InvalidNumber)
        ELSE IF ~migrationBaseAmount.ok THEN Throw(migrationBaseAmount.err)
        ELSE IF ~first.ok THEN Throw(first.err)
        ELSE IF ~totalDynamicSupply.ok THEN Throw(totalDynamicSupply.err)
        ELSE IF ~lastLiquidity.ok THEN Throw(lastLiquidity.err)
        ELSE Config(first.sqrtStartPrice,
                    PushLastLiquidity(first.curve, lastLiquidity.val),
                    migrationQuoteThresholdWithDecimals, totalSupply,
                    EmittedBaseFee(p), EmittedDynamicFee(p),
                    totalDynamicSupply.val, totalLeftover)

\* sqrt(initialMarketCap / migrationMarketCap) * (100 - vesting%) /
\* (1 + sqrt(initialMarketCap / migrationMarketCap)), as a JavaScript number
CalculatePercentageSupplyOnMigration(initialMarketCap, migrationMarketCap, lockedVesting, totalTokenSupply) ==
    LET sqrtRatio == ISqrt(MulDivFloor(initialMarketCap, 2^(2 * DecimalBits),
                                       migrationMarketCap))
    IN  FloorMulDiv(2^NumberBits * 100
                        * (totalTokenSupply - GetTotalVestingAmount(lockedVesting)),
                    sqrtRatio, totalTokenSupply * (2^DecimalBits + sqrtRatio))

\* migrationMarketCap * percentageSupplyOnMigration / 100, as a JavaScript number
CalculateMigrationQuoteThreshold(migrationMarketCap, percentageSupplyOnMigration) ==
    BNDiv(migrationMarketCap * percentageSupplyOnMigration, 100)

BuildCurveWithMarketCap(p) ==
    IF p.migrationMarketCap <= 0 \/ p.initialMarketCap < 0 \/ p.totalTokenSupply <= 0
    THEN Throw(InvalidNumber)
    ELSE LET percentageSupplyOnMigration ==
                 CalculatePercentageSupplyOnMigration(
                     p.initialMarketCap, p.migrationMarketCap, p.lockedVesting,
                     p.totalTokenSupply)
             migrationQuoteThreshold ==
                 CalculateMigrationQuoteThreshold(p.migrationMarketCap,
                                                  percentageSupplyOnMigration)
         IN  BuildCurve([p EXCEPT
                 !.percentageSupplyOnMigration = percentageSupplyOnMigration,
                 !.migrationQuoteThreshold = migrationQuoteThreshold])

(***************************************************************************)
(* helpers/buildCurve.ts: buildCurveWithTwoSegments.                       *)
(***************************************************************************)
\* the migration sqrt price of buildCurveWithTwoSegments: that of the price
\* migrationQuoteThreshold / migrationBaseSupply
TwoSegmentsMigrateSqrtPrice(p) ==
    GetSqrtPriceFromPrice(
        CalculateMigrationQuoteThreshold(p.migrationMarketCap,
                                         p.percentageSupplyOnMigration),
        BNDiv(p.totalTokenSupply * NumberToBN(p.percentageSupplyOnMigration), 100)
            * 2^NumberBits,
        p.tokenBaseDecimal, p.tokenQuoteDecimal)

BuildCurveWithTwoSegments(p) ==
    LET migrationBaseSupply ==
            BNDiv(p.totalTokenSupply * NumberToBN(p.percentageSupplyOnMigration), 100)
        totalSupply == p.totalTokenSupply * Pow10(p.tokenBaseDecimal)
        migrationQuoteThreshold ==
            CalculateMigrationQuoteThreshold(p.migrationMarketCap,
                                             p.percentageSupplyOnMigration)
        migrationQuoteThresholdWithDecimals ==
            NumberToBN(migrationQuoteThreshold * Pow10(p.tokenQuoteDecimal))
        migrateSqrtPrice == TwoSegmentsMigrateSqrtPrice(p)
        migrationBaseAmount ==
            GetMigrationBaseToken(migrationQuoteThresholdWithDecimals, migrateSqrtPrice,
                                  p.migrationOption)
        totalVestingAmount == GetTotalVestingAmount(p.lockedVesting)
        totalLeftover == p.leftover * Pow10(p.tokenBaseDecimal)
        swapAmount ==
            totalSupply - migrationBaseAmount.val - totalVestingAmount - totalLeftover
        initialSqrtPrice ==
            GetSqrtPriceFromMarketCap(p.initialMarketCap, p.totalTokenSupply,
                                      p.tokenBaseDecimal, p.tokenQuoteDecimal)
        two ==
            GetTwoCurve(migrateSqrtPrice, initialSqrtPrice, swapAmount,
                        migrationQuoteThresholdWithDecimals)
        totalDynamicSupply ==
            GetTotalSupplyFromCurve(migrationQuoteThresholdWithDecimals,
                                    two.sqrtStartPrice, two.curve, p.lockedVesting,
                                    p.migrationOption, totalLeftover)
    IN  IF migrationBaseSupply <= 0 \/ migrationQuoteThreshold < 0
        THEN Throw(InvalidNumber)
        ELSE IF ~migrationBaseAmount.ok THEN Throw(migrationBaseAmount.err)
        ELSE IF ~two.ok THEN Throw(two.err)
        ELSE IF ~totalDynamicSupply.ok THEN Throw(totalDynamicSupply.err)
        ELSE IF LeftOverCheckFails(totalDynamicSupply.val, totalSupply, totalLeftover)
        THEN Throw(LeftOverError)
        ELSE Config(two.sqrtStartPrice, two.curve,
                    migrationQuoteThresholdWithDecimals, totalSupply,
                    EmittedBaseFee(p), EmittedDynamicFee(p),
                    totalDynamicSupply.val, totalLeftover)

(***************************************************************************)
(* helpers/buildCurve.ts: buildCurveWithLiquidityWeights and               *)
(* buildCurveWithCreatorFirstBuy.  A Decimal is a fixed-point number with  *)
(* DecimalBits fractional bits.                                            *)
(***************************************************************************)
DecimalOne == 2^DecimalBits

RECURSIVE DecimalPow(_, _, _)
\* base^exp on Decimals; result is the accumulator
DecimalPow(base, exp, result) ==
    IF exp = 0 THEN result
    ELSE DecimalPow(MulDivFloor(base, base, DecimalOne), exp \div 2,
                    IF exp % 2 = 1 THEN MulDivFloor(result, base, DecimalOne)
                    ELSE result)

RECURSIVE RootSearch(_, _, _, _)
RootSearch(x, n, lo, hi) ==
    IF lo >= hi THEN lo
    ELSE LET mid == (lo + hi + 1) \div 2
         IN  IF DecimalPow(mid, n, DecimalOne) <= x THEN RootSearch(x, n, mid, hi)
             ELSE RootSearch(x, n, lo, mid - 1)

\* priceRatio.pow(1 / n): the n-th root of a Decimal
DecimalRoot(x, n) == RootSearch(x, n, 0, 2 * DecimalOne)

\* the linear reduction factor rounded up: the schedule ends below the
\* ending fee
LinearReductionFactorRoundedUp(maxBaseFeeNumerator, minBaseFeeNumerator, numberOfPeriod) ==
    (maxBaseFeeNumerator - minBaseFeeNumerator + numberOfPeriod - 1) \div numberOfPeriod

\* linear mode: the total reduction shared out over the periods, rounded down
LinearReductionFactor(maxBaseFeeNumerator, minBaseFeeNumerator, numberOfPeriod) ==
    BNDiv(maxBaseFeeNumerator - minBaseFeeNumerator, numberOfPeriod)

\* exponential mode: BASIS_POINT_MAX * (1 - (min / max)^(1 / numberOfPeriod)),
\* rounded down
ExponentialReductionFactor(maxBaseFeeNumerator, minBaseFeeNumerator, numberOfPeriod) ==
    LET ratio == MulDivFloor(minBaseFeeNumerator, DecimalOne, maxBaseFeeNumerator)
        decayBase == RootSearch(ratio, numberOfPeriod, 0, DecimalOne)
    IN  MulDivFloor(BASIS_POINT_MAX, DecimalOne - decayBase, DecimalOne)

\* the schedule that decays from startingFeeBps to endingFeeBps over
\* numberOfPeriod periods that take totalDuration together
CalculateFeeScheduler(startingFeeBps, endingFeeBps, feeSchedulerMode, numberOfPeriod, totalDuration) ==
    LET maxBaseFeeNumerator == BpsToFeeNumerator(startingFeeBps)
        minBaseFeeNumerator == BpsToFeeNumerator(endingFeeBps)
    IN  [cliffFeeNumerator |-> maxBaseFeeNumerator,
         numberOfPeriod |-> numberOfPeriod,
         reductionFactor |->
             IF feeSchedulerMode = LINEAR
             THEN LinearReductionFactor(maxBaseFeeNumerator, minBaseFeeNumerator,
                                        numberOfPeriod)
             ELSE ExponentialReductionFactor(maxBaseFeeNumerator, minBaseFeeNumerator,
                                             numberOfPeriod),
         periodFrequency |-> totalDuration \div numberOfPeriod,
         feeSchedulerMode |-> feeSchedulerMode]

RECURSIVE SqrtPriceGrid(_, _, _)
\* the loop that collects count prices, each the floor of q times the one before
SqrtPriceGrid(count, currentPrice, qDecimal) ==
    IF count = 0 THEN <<>>
    ELSE <<currentPrice>>
             \o SqrtPriceGrid(count - 1, MulDivFloor(qDecimal, currentPrice, DecimalOne),
                              qDecimal)

\* k * (w1 + w2) for the segment between sqrtPrices[i - 1] and sqrtPrices[i],
\* scaled by 2^(DecimalBits + ResolutionBits)
SegmentWeight(k, pi, piMinus, pMax) ==
    LET scale == 2^(DecimalBits + ResolutionBits)
        w1 == BNMulDiv(scale, pi - piMinus, pi * piMinus)
        w2 == BNMulDiv(scale, pi - piMinus, pMax * pMax)
    IN  k * (w1 + w2)

RECURSIVE SumFactor(_, _, _, _)
\* the loop over i = 1 .. count that adds up the segments' weights
SumFactor(i, sqrtPrices, liquidityWeights, pMax) ==
    IF i = 0 THEN 0
    ELSE SumFactor(i - 1, sqrtPrices, liquidityWeights, pMax)
             + SegmentWeight(liquidityWeights[i], sqrtPrices[i + 1], sqrtPrices[i], pMax)

\* WeightedLiquidity rounded up instead of down
WeightedLiquidityRoundedUp(amount, k, sumFactor) ==
    FloorMulDiv(amount * 2^(DecimalBits + ResolutionBits), k, sumFactor) + 1

\* convertDecimalToBN(l1 * k), l1 = amount / sumFactor
WeightedLiquidity(amount, k, sumFactor) ==
    FloorMulDiv(amount * 2^(DecimalBits + ResolutionBits), k, sumFactor)

\* FinishWeighted with the migration quote threshold rounded up
FinishWeightedThresholdRoundedUp(p, sqrtStartPrice, pMax, curve, totalSupply, totalLeftover, totalSwapAndMigrationAmount, baseFee) ==
    LET swapBaseAmount == GetBaseTokenForSwap(sqrtStartPrice, pMax, curve)
        swapBaseAmountBuffer ==
            GetSwapAmountWithBuffer(swapBaseAmount.val, sqrtStartPrice, curve)
        migrationAmount == totalSwapAndMigrationAmount - swapBaseAmountBuffer.val
        migrationQuoteThreshold ==
            BNMulDivUp(migrationAmount, pMax * pMax, 2^(2 * ResolutionBits))
        totalDynamicSupply ==
            GetTotalSupplyFromCurve(migrationQuoteThreshold, sqrtStartPrice, curve,
                                    p.lockedVesting, p.migrationOption, totalLeftover)
    IN  IF ~swapBaseAmount.ok THEN Throw(swapBaseAmount.err)
        ELSE IF ~swapBaseAmountBuffer.ok THEN Throw(swapBaseAmountBuffer.err)
        ELSE IF migrationAmount < 0 THEN Throw(NegativeShift)
        ELSE IF ~totalDynamicSupply.ok THEN Throw(totalDynamicSupply.err)
        ELSE IF LeftOverCheckFails(totalDynamicSupply.val, totalSupply, totalLeftover)
        THEN Throw(LeftOverError)
        ELSE Config(sqrtStartPrice, curve, migrationQuoteThreshold, totalSupply,
                    baseFee, EmittedDynamicFee(p),
                    totalDynamicSupply.val, totalLeftover)

\* the tail every weighted builder ends with: the swap amount recomputed from
\* the curve, the migration amount and threshold, and the sanity check
FinishWeighted(p, sqrtStartPrice, pMax, curve, totalSupply, totalLeftover, totalSwapAndMigrationAmount, baseFee) ==
    LET swapBaseAmount == GetBaseTokenForSwap(sqrtStartPrice, pMax, curve)
        swapBaseAmountBuffer ==
            GetSwapAmountWithBuffer(swapBaseAmount.val, sqrtStartPrice, curve)
        migrationAmount == totalSwapAndMigrationAmount - swapBaseAmountBuffer.val
        migrationQuoteThreshold ==
            MulDivFloor(migrationAmount, pMax * pMax, 2^(2 * ResolutionBits))
        totalDynamicSupply ==
            GetTotalSupplyFromCurve(migrationQuoteThreshold, sqrtStartPrice, curve,
                                    p.lockedVesting, p.migrationOption, totalLeftover)
    IN  IF ~swapBaseAmount.ok THEN Throw(swapBaseAmount.err)
        ELSE IF ~swapBaseAmountBuffer.ok THEN Throw(swapBaseAmountBuffer.err)
        ELSE IF migrationAmount < 0 THEN Throw(NegativeShift)
        ELSE IF ~totalDynamicSupply.ok THEN Throw(totalDynamicSupply.err)
        ELSE IF LeftOverCheckFails(totalDynamicSupply.val, totalSupply, totalLeftover)
        THEN Throw(LeftOverError)
        ELSE Config(sqrtStartPrice, curve, migrationQuoteThreshold, totalSupply,
                    baseFee, EmittedDynamicFee(p),
                    totalDynamicSupply.val, totalLeftover)

BuildCurveWithLiquidityWeights(p) ==
    LET pMin == GetSqrtPriceFromMarketCap(p.initialMarketCap, p.totalTokenSupply,
                                          p.tokenBaseDecimal, p.tokenQuoteDecimal)
        pMax == GetSqrtPriceFromMarketCap(p.migrationMarketCap, p.totalTokenSupply,
                                          p.tokenBaseDecimal, p.tokenQuoteDecimal)
        priceRatio == MulDivFloor(pMax, DecimalOne, pMin)
        qDecimal == DecimalRoot(priceRatio, 16)
        sqrtPrices == SqrtPriceGrid(17, pMin, qDecimal)
        totalSupply == p.totalTokenSupply * Pow10(p.tokenBaseDecimal)
        totalLeftover == p.leftover * Pow10(p.tokenBaseDecimal)
        totalSwapAndMigrationAmount ==
            totalSupply - GetTotalVestingAmount(p.lockedVesting) - totalLeftover
        sumFactor == SumFactor(16, sqrtPrices, p.liquidityWeights, pMax)
        curve ==
            [i \in 1..16 |->
                [sqrtPrice |-> IF i < 16 THEN sqrtPrices[i + 1] ELSE pMax,
                 liquidity |-> WeightedLiquidity(totalSwapAndMigrationAmount,
                                                 p.liquidityWeights[i], sumFactor)]]
    IN  IF pMin = 0 \/ pMax = 0 \/ sumFactor = 0 THEN Throw(InvalidNumber)
        ELSE FinishWeighted(p, pMin, pMax, curve, totalSupply, totalLeftover,
                            totalSwapAndMigrationAmount, EmittedBaseFee(p))

\* the first buy: the quote paid in after the cliff fee, and the base bought
FirstBuyQuoteAmountAfterFee(p) ==
    BNMulDiv(NumberToBN(p.creatorFirstBuyOption.quoteAmount * Pow10(p.tokenQuoteDecimal)),
             FEE_DENOMINATOR - BpsToFeeNumerator(p.baseFeeBps), FEE_DENOMINATOR)

FirstBuyBaseAmount(p) ==
    NumberToBN(p.creatorFirstBuyOption.baseAmount * Pow10(p.tokenBaseDecimal))

FirstBuyPMin(p) ==
    GetSqrtPriceFromMarketCap(p.initialMarketCap, p.totalTokenSupply,
                              p.tokenBaseDecimal, p.tokenQuoteDecimal)

\* p0 = (quoteAmountAfterFee << 2*RESOLUTION) / firstBuyBaseAmount / pMin
FirstBuyP0(p) ==
    IF FirstBuyQuoteAmountAfterFee(p) < 0 THEN Fail(NegativeShift)
    ELSE IF FirstBuyBaseAmount(p) = 0 \/ FirstBuyPMin(p) = 0 THEN Fail(DivByZero)
    ELSE Ok(BNDiv(BNDiv(Shln(FirstBuyQuoteAmountAfterFee(p), 2 * ResolutionBits),
                        FirstBuyBaseAmount(p)),
                  FirstBuyPMin(p)))

\* FirstBuyL0 dividing by pMin instead of pMin - p0
FirstBuyL0OverPMin(p, pMin, p0) ==
    IF pMin = p0 THEN Fail(DivByZero)
    ELSE Ok(BNDiv(Shln(FirstBuyQuoteAmountAfterFee(p), 2 * ResolutionBits), pMin))

\* l0 = (quoteAmountAfterFee << 2*RESOLUTION) / (pMin - p0)
FirstBuyL0(p, pMin, p0) ==
    IF pMin = p0 THEN Fail(DivByZero)
    ELSE Ok(BNDiv(Shln(FirstBuyQuoteAmountAfterFee(p), 2 * ResolutionBits), pMin - p0))

BuildCurveWithCreatorFirstBuy(p) ==
    LET pMin == FirstBuyPMin(p)
        pMax == GetSqrtPriceFromMarketCap(p.migrationMarketCap, p.totalTokenSupply,
                                          p.tokenBaseDecimal, p.tokenQuoteDecimal)
        p0 == FirstBuyP0(p)
        l0 == FirstBuyL0(p, pMin, p0.val)
        priceRatio == MulDivFloor(pMax, DecimalOne, pMin)
        qDecimal == DecimalRoot(priceRatio, 15)
        sqrtPrices == SqrtPriceGrid(16, pMin, qDecimal)
        totalSupply == p.totalTokenSupply * Pow10(p.tokenBaseDecimal)
        totalLeftover == p.leftover * Pow10(p.tokenBaseDecimal)
        totalSwapAndMigrationAmount ==
            totalSupply - GetTotalVestingAmount(p.lockedVesting) - totalLeftover
        totalSwapAndMigrationAmountAfterFirstBuyAmount ==
            totalSwapAndMigrationAmount - FirstBuyBaseAmount(p)
        sumFactor == SumFactor(15, sqrtPrices, p.liquidityWeights, pMax)
        curve ==
            <<[sqrtPrice |-> pMin, liquidity |-> l0.val]>>
              \o [i \in 1..15 |->
                    [sqrtPrice |-> sqrtPrices[i + 1],
                     liquidity |-> WeightedLiquidity(
                                       totalSwapAndMigrationAmountAfterFirstBuyAmount,
                                       p.liquidityWeights[i], sumFactor)]]
    IN  IF ~p0.ok THEN Throw(p0.err)
        ELSE IF ~l0.ok THEN Throw(l0.err)
        ELSE IF pMin < p0.val THEN Throw(FirstPriceError)
        ELSE IF pMax = 0 \/ sumFactor = 0 THEN Throw(InvalidNumber)
        ELSE FinishWeighted(p, p0.val, pMax, curve, totalSupply, totalLeftover,
                            totalSwapAndMigrationAmount,
                            [cliffFeeNumerator |-> BpsToFeeNumerator(p.baseFeeBps),
                             numberOfPeriod |-> 0, reductionFactor |-> 0,
                             periodFrequency |-> 0, feeSchedulerMode |-> 0])

(***************************************************************************)
(* build.ts: buildCustomConstantProductCurve.  An optional input is a      *)
(* value and a flag that says whether it is defined.                       *)
(***************************************************************************)
\* sqrt(initialMarketCap / migrationMarketCap) * 100 /
\* (1 + sqrt(initialMarketCap / migrationMarketCap)), as a JavaScript number
GetPercentageSupplyOnMigration(initialMarketCap, migrationMarketCap) ==
    LET sqrtRatio == ISqrt(MulDivFloor(initialMarketCap, 2^(2 * DecimalBits),
                                       migrationMarketCap))
    IN  MulDivFloor(2^NumberBits * 100, sqrtRatio, 2^DecimalBits + sqrtRatio)

\* migrationMarketCap * percentageSupplyOnMigration / 100, as a JavaScript number
GetMigrationQuoteThreshold(migrationMarketCap, percentageSupplyOnMigration) ==
    BNDiv(migrationMarketCap * percentageSupplyOnMigration, 100)

HasPercentageAndThreshold(p) ==
    p.hasPercentageSupplyOnMigration /\ p.hasMigrationQuoteThreshold

\* HasMarketCaps that takes one market cap for the pair
HasEitherMarketCap(p) == p.hasInitialMarketCap \/ p.hasMigrationMarketCap

HasMarketCaps(p) == p.hasInitialMarketCap /\ p.hasMigrationMarketCap

\* the dynamic fee of buildCustomConstantProductCurve is a fixed one
CustomVariableFeeControl == 2000000

BuildCustomConstantProductCurve(p) ==
    IF HasPercentageAndThreshold(p) /\ HasMarketCaps(p) THEN Throw(BothPairsError)
    ELSE IF ~HasPercentageAndThreshold(p) /\ ~HasMarketCaps(p)
    THEN Throw(NeitherPairError)
    ELSE IF HasMarketCaps(p) /\ (p.migrationMarketCap <= 0 \/ p.initialMarketCap < 0)
    THEN Throw(InvalidNumber)
    ELSE LET finalPercentageSupplyOnMigration ==
                 IF HasMarketCaps(p)
                 THEN GetPercentageSupplyOnMigration(p.initialMarketCap,
                                                     p.migrationMarketCap)
                 ELSE p.percentageSupplyOnMigration
             finalMigrationQuoteThreshold ==
                 IF HasMarketCaps(p)
                 THEN GetMigrationQuoteThreshold(p.migrationMarketCap,
                                                 finalPercentageSupplyOnMigration)
                 ELSE p.migrationQuoteThreshold
             built ==
                 BuildCurve([p EXCEPT
                     !.percentageSupplyOnMigration = finalPercentageSupplyOnMigration,
                     !.migrationQuoteThreshold = finalMigrationQuoteThreshold,
                     !.leftover = 0])
         IN  IF ~built.ok THEN built
             ELSE [built EXCEPT
                      !.baseFee.cliffFeeNumerator = p.baseFeeBps * 100000,
                      !.dynamicFee =
                          IF p.dynamicFeeEnabled
                          THEN [enabled |-> TRUE,
                                variableFeeControl |-> CustomVariableFeeControl]
                          ELSE NoDynamicFee]

\* ------------------------------------------------------------------
\* The partner service.
\* ------------------------------------------------------------------

InvalidConfigParameters == "validateConfigParameters: invalid"

\* the object handed to validateConfigParameters:
\* { ...configParam, leftoverReceiver }
ValidatedConfiguration(configParam, leftoverReceiver) ==
    [configParam |-> configParam, leftoverReceiver |-> leftoverReceiver]

\* validateConfigParameters returns, or throws when it rejects the object
ValidateConfigParameters(validated, rejects) ==
    IF rejects THEN Fail(InvalidConfigParameters) ELSE Ok(validated)

\* program.methods.createConfig(configParam).accounts({...}).transaction()
CreateConfigTransaction(configParam, param) ==
    [method |-> "createConfig", args |-> configParam,
     accounts |-> [config |-> param.config, feeClaimer |-> param.feeClaimer,
                   leftoverReceiver |-> param.leftoverReceiver,
                   quoteMint |-> param.quoteMint, payer |-> param.payer]]

\* the transaction built without the error checks
ValidateAndCreateConfigUnchecked(configParam, param, rejects) ==
    [validated |-> <<ValidatedConfiguration(configParam, param.leftoverReceiver)>>,
     result |-> Ok(CreateConfigTransaction(configParam, param))]

\* the error checks on the configuration, then the transaction that creates
\* it: what was validated, and what the method returns
ValidateAndCreateConfig(configParam, param, rejects) ==
    LET validated == ValidatedConfiguration(configParam, param.leftoverReceiver)
    IN  [validated |-> <<validated>>,
         result |-> IF ValidateConfigParameters(validated, rejects).ok
                    THEN Ok(CreateConfigTransaction(configParam, param))
                    ELSE Fail(InvalidConfigParameters)]

CreateConfig(createConfigParam, rejects) ==
    ValidateAndCreateConfig(createConfigParam.configParam, createConfigParam, rejects)

BuildCurveAndCreateConfig(param, rejects) ==
    LET curveConfig == BuildCurve(param.buildCurveParam)
    IN  IF curveConfig.ok THEN ValidateAndCreateConfig(curveConfig, param, rejects)
        ELSE [validated |-> <<>>, result |-> Fail(curveConfig.err)]

BuildCurveAndCreateConfigByMarketCap(param, rejects) ==
    LET curveConfig == BuildCurveWithMarketCap(param.buildCurveByMarketCapParam)
    IN  IF curveConfig.ok THEN ValidateAndCreateConfig(curveConfig, param, rejects)
        ELSE [validated |-> <<>>, result |-> Fail(curveConfig.err)]

(***************************************************************************)
(* The inputs the calls are given.                                         *)
(***************************************************************************)
NoVesting == [amountPerPeriod |-> 0, numberOfPeriod |-> 0, cliffUnlockAmount |-> 0]

\* 3 periods of 5 raw units after a cliff of 5
SomeVesting == [amountPerPeriod |-> 5, numberOfPeriod |-> 3, cliffUnlockAmount |-> 5]

NoScheduler ==
    [numberOfPeriod |-> 0, reductionFactor |-> 0, periodFrequency |-> 0,
     feeSchedulerMode |-> LINEAR]

\* a fee that comes down by a tenth of the cliff fee of 100 basis points in
\* each of 5 periods
LinearDecay ==
    [numberOfPeriod |-> 5, reductionFactor |-> 1000000, periodFrequency |-> 10,
     feeSchedulerMode |-> LINEAR]

\* a fee that comes down by 50 basis points of itself in each of 5 periods
ExponentialDecay ==
    [numberOfPeriod |-> 5, reductionFactor |-> 50, periodFrequency |-> 10,
     feeSchedulerMode |-> EXPONENTIAL]

\* the shapes of liquidity weights: flat, rising and falling
FlatWeights == [i \in 1..16 |-> 1]

RisingWeights == [i \in 1..16 |-> 1 + (i - 1) \div 4]

FallingWeights == [i \in 1..16 |-> 4 - (i - 1) \div 4]

\* a JavaScript number with the value of the integer n
Number(n) == n * 2^NumberBits

\* half of the integer n, as a JavaScript number
HalfOf(n) == n * 2^(NumberBits - 1)

NoFirstBuy == [quoteAmount |-> 0, baseAmount |-> 0]

\* no call yet: every field at its zero
NoParam ==
    [totalTokenSupply |-> 0,
     hasPercentageSupplyOnMigration |-> FALSE, percentageSupplyOnMigration |-> 0,
     hasMigrationQuoteThreshold |-> FALSE, migrationQuoteThreshold |-> 0,
     hasInitialMarketCap |-> FALSE, initialMarketCap |-> 0,
     hasMigrationMarketCap |-> FALSE, migrationMarketCap |-> 0,
     migrationOption |-> MET_DAMM, tokenBaseDecimal |-> 0, tokenQuoteDecimal |-> 0,
     lockedVesting |-> NoVesting, leftover |-> 0, baseFeeBps |-> 0,
     dynamicFeeEnabled |-> FALSE, feeSchedulerParam |-> NoScheduler,
     liquidityWeights |-> FlatWeights, creatorFirstBuyOption |-> NoFirstBuy]

\* the fields every builder reads
CommonParams ==
    {[NoParam EXCEPT !.totalTokenSupply = MaxTokenSupply,
                     !.migrationOption = opt, !.tokenBaseDecimal = 1,
                     !.tokenQuoteDecimal = q, !.leftover = lo,
                     !.baseFeeBps = 100, !.dynamicFeeEnabled = TRUE,
                     !.feeSchedulerParam = schedule] :
        opt \in {MET_DAMM, MET_DAMM_V2}, q \in {0, 1}, lo \in {0, 2},
        schedule \in {NoScheduler, LinearDecay, ExponentialDecay}}

InitialMarketCaps == {5, 20}

MigrationMarketCaps == {20, 80, 320}

Percentages == {10, 20, 50}

BuildCurveParams ==
    {[c EXCEPT !.hasPercentageSupplyOnMigration = TRUE,
               !.percentageSupplyOnMigration = Number(pct),
               !.hasMigrationQuoteThreshold = TRUE,
               !.migrationQuoteThreshold = Number(thr),
               !.lockedVesting = v] :
        c \in CommonParams, pct \in Percentages, thr \in {2, 5, 10, 20},
        v \in {NoVesting, SomeVesting}}

MarketCapParams ==
    {[c EXCEPT !.hasInitialMarketCap = TRUE, !.initialMarketCap = imc,
               !.hasMigrationMarketCap = TRUE, !.migrationMarketCap = mmc,
               !.lockedVesting = v] :
        c \in CommonParams, imc \in InitialMarketCaps, mmc \in MigrationMarketCaps,
        v \in {NoVesting, SomeVesting}}

TwoSegmentsParams ==
    {[c EXCEPT !.hasInitialMarketCap = TRUE, !.initialMarketCap = imc,
               !.hasMigrationMarketCap = TRUE, !.migrationMarketCap = mmc,
               !.hasPercentageSupplyOnMigration = TRUE,
               !.percentageSupplyOnMigration = Number(pct)] :
        c \in CommonParams, imc \in InitialMarketCaps, mmc \in MigrationMarketCaps,
        pct \in Percentages}

LiquidityWeightsParams ==
    {[c EXCEPT !.hasInitialMarketCap = TRUE, !.initialMarketCap = imc,
               !.hasMigrationMarketCap = TRUE, !.migrationMarketCap = mmc,
               !.liquidityWeights = w] :
        c \in CommonParams, imc \in InitialMarketCaps, mmc \in MigrationMarketCaps,
        w \in {FlatWeights, RisingWeights, FallingWeights}}

\* first buys of one, two or eight tokens at half, once and twice the quote
\* amount
FirstBuys ==
    {[quoteAmount |-> quote, baseAmount |-> Number(base)] :
        quote \in {HalfOf(1), Number(1), Number(2)}, base \in {1, 2, 8}}

CreatorFirstBuyParams ==
    {[c EXCEPT !.hasInitialMarketCap = TRUE, !.initialMarketCap = 20,
               !.hasMigrationMarketCap = TRUE, !.migrationMarketCap = mmc,
               !.liquidityWeights = w, !.creatorFirstBuyOption = fb,
               !.baseFeeBps = bps] :
        c \in CommonParams, mmc \in {80, 320}, w \in {FlatWeights, RisingWeights},
        fb \in FirstBuys, bps \in {0, 100}}

\* every way of defining or leaving out the four optional inputs
CustomParams ==
    {[c EXCEPT !.hasPercentageSupplyOnMigration = hp,
               !.percentageSupplyOnMigration = IF hp THEN Number(20) ELSE 0,
               !.hasMigrationQuoteThreshold = ht,
               !.migrationQuoteThreshold = IF ht THEN Number(10) ELSE 0,
               !.hasInitialMarketCap = hi,
               !.initialMarketCap = IF hi THEN 20 ELSE 0,
               !.hasMigrationMarketCap = hm,
               !.migrationMarketCap = IF hm THEN mmc ELSE 0] :
        c \in CommonParams, hp \in BOOLEAN, ht \in BOOLEAN, hi \in BOOLEAN,
        hm \in BOOLEAN, mmc \in {80, 320}}

\* the largest period a fee is asked at
MaxPeriod == 12

\* fee schedules: in linear mode the reduction factor is a fee numerator per
\* period, in exponential mode it is basis points per period
FeeSchedules ==
    {[cliffFeeNumerator |-> 1000, numberOfPeriod |-> n, reductionFactor |-> rf,
      periodFrequency |-> freq, feeSchedulerMode |-> mode] :
        n \in {5, 10}, rf \in {0, 50, 100, 150}, freq \in {0, 100},
        mode \in {LINEAR, EXPONENTIAL}}

\* the cliff fees getFeeInPeriod is asked about
CliffFees == {0, 1, 1000}

CurrentPoints == {50, 100, 199, 300, 350, 2000}

ActivationPoints == {100}

\* the fees, in basis points, a schedule is to start and to end at: the
\* ending fee is not above the starting fee
StartingAndEndingFeeBps ==
    {<<5000, 1000>>, <<5000, 30>>, <<250, 100>>, <<250, 30>>, <<100, 100>>}

\* the arguments of calculateFeeScheduler
FeeSchedulerCalls ==
    {[startingFeeBps |-> fees[1], endingFeeBps |-> fees[2], feeSchedulerMode |-> mode,
      numberOfPeriod |-> n, totalDuration |-> duration] :
        fees \in StartingAndEndingFeeBps, mode \in {LINEAR, EXPONENTIAL},
        n \in {1, 7, 144}, duration \in {60, 1000}}

\* the arguments of getMinBaseFeeBps: a cliff fee with the base fee in basis
\* points it was derived from, and a schedule in either mode
MinBaseFeeCalls ==
    {[baseFeeBps |-> bps,
      baseFee |-> [cliffFeeNumerator |-> BpsToFeeNumerator(bps), numberOfPeriod |-> n,
                   reductionFactor |-> rf, periodFrequency |-> 0,
                   feeSchedulerMode |-> LINEAR]] :
        bps \in {0, 100, 5000}, n \in {0, 5, 144}, rf \in {0, 50, 3333333, 5000000}}
    \cup
    {[baseFeeBps |-> bps,
      baseFee |-> [cliffFeeNumerator |-> BpsToFeeNumerator(bps), numberOfPeriod |-> n,
                   reductionFactor |-> rf, periodFrequency |-> 0,
                   feeSchedulerMode |-> EXPONENTIAL]] :
        bps \in {0, 100, 5000}, n \in {0, 5, 37}, rf \in {0, 50, 822}}

\* the arguments of getVariableFee: a dynamic fee, initialized or not, and a
\* volatility tracker
VariableFeeCalls ==
    {[dynamicFee |-> [initialized |-> initialized, variableFeeControl |-> control,
                      binStep |-> binStep, maxVolatilityAccumulator |-> 1000],
      volatilityTracker |-> [volatilityAccumulator |-> accumulator,
                             volatilityReference |-> 0]] :
        initialized \in {0, 1}, control \in {0, 1, 10}, binStep \in {0, 1, 10},
        accumulator \in {0, 1, 30, 1000}}

\* the arguments of calculateVolatilityReference: times before, at and after
\* the filter and decay periods, which come in either order, and reduction
\* factors up to and above 10000
VolatilityReferenceCalls ==
    [timeElapsed : {0, 9, 10, 60, 120, 130, 200},
     filterPeriod : {10, 150},
     decayPeriod : {120},
     reductionFactor : {0, 3333, 5000, 10000, 12000},
     previousVolatilityAccumulator : {0, 1, 7, 1000}]

\* the arguments of calculateVolatilityAccumulator, with the
\* maxVolatilityAccumulator of the dynamic fee the accumulator is computed
\* for, which the function is not given
VolatilityAccumulatorCalls ==
    [volatilityReference : {0, 500, 1000, 100000},
     indexReference : {-5, 0, 8},
     activeId : {-3, 0, 1, 8},
     k : {-1, 0, 1},
     maxVolatilityAccumulator : {1000, 100000}]

\* the arguments of calculateDynamicFeeParameters: a base fee in basis
\* points and a target ratio, the default among them
DynamicFeeParameterCalls ==
    [baseFeeBps : {0, 1, 25, 100, 1000},
     targetRatio : {<<0, 1>>, DefaultTargetRatio, <<1, 3>>, <<1, 2>>, <<1, 1>>}]

\* the volatility accumulators the variable fee of the parameters is asked at
UnitVolatilityAccumulators == {0, 1, 3}

\* the arguments of getLockedVesting: a target total and an amount per
\* period in whole tokens, the periods not to release more than the total
LockedVestingCalls ==
    {f \in [totalVestingAmount : {0, 1, 20, 1000},
            numberOfPeriod : {0, 1, 10},
            amountPerPeriod : {0, 1, 2, 100},
            cliffDurationFromMigrationTime : {0},
            frequency : {1},
            tokenBaseDecimal : {0, 6}] :
        f.amountPerPeriod * f.numberOfPeriod <= f.totalVestingAmount}

\* the arguments of getTotalTokenSupply: amounts of either sign, up to and
\* beyond the width of a token amount
TotalTokenSupplyCalls ==
    [swapBaseAmount : {-5, 0, 7, 2^SupplyBits - 1, 2^SupplyBits},
     migrationBaseThreshold : {0, 1, 50},
     lockedVestingParams :
         [amountPerPeriod : {0, 3, 2^(SupplyBits - 1)},
          numberOfPeriod : {0, 2},
          cliffUnlockAmount : {-3, 0, 4}]]

\* the schedules isDefaultLockedVesting is asked about: every field zero or
\* not, of either sign
LockedVestingSchedules ==
    [amountPerPeriod : {0, 5},
     cliffDurationFromMigrationTime : {0, 1},
     frequency : {0, 1},
     numberOfPeriod : {0, 3},
     cliffUnlockAmount : {-1, 0, 5}]

\* the pools getCurveProgress is asked about: one that does not exist, and
\* pools whose quote reserve and threshold are token amounts, zero, within
\* and beyond the safe width of a JavaScript number
PoolStates ==
    [exists : BOOLEAN,
     quoteReserve : {0, 3, 10, 100, 2^SafeIntegerBits - 1, 2^SafeIntegerBits,
                     2^SupplyBits - 1},
     migrationQuoteThreshold : {0, 10, 100, 2^SafeIntegerBits - 1, 2^SupplyBits - 1}]

\* the mints of a pool's two tokens, and the programs they belong to
TokenMints == {NATIVE_MINT, "baseMint", "quoteMint"}

TokenPrograms == {TOKEN_PROGRAM_ID, TOKEN_2022_PROGRAM_ID}

\* prepareTokenAccounts is called with the two different mints of a pool
PrepareTokenAccountsCalls ==
    {call \in [owner : {"owner"}, tokenAMint : TokenMints, tokenBMint : TokenMints,
               tokenAProgram : TokenPrograms, tokenBProgram : TokenPrograms] :
        call.tokenAMint # call.tokenBMint}

TokenTypes == {SPL, Token2022}

AccountInfos == {AccountFound, AccountMissing, AccountInfoRejected}

\* swaps of five units either way in a pool of two different mints
PreLaunchSwaps ==
    {call \in [swapParam : [owner : {"owner"}, amountIn : {5}, minimumAmountOut : {0},
                            swapBaseForQuote : BOOLEAN],
               baseMint : TokenMints, quoteMint : TokenMints,
               baseMintType : TokenTypes, quoteMintType : TokenTypes] :
        call.baseMint # call.quoteMint}

\* the accounts of a create-config call
ConfigAccounts ==
    [config : {"config"}, feeClaimer : {"feeClaimer"},
     leftoverReceiver : {"leftoverReceiver"}, quoteMint : {NATIVE_MINT},
     payer : {"payer"}]

\* the builds the partner service is asked for: those without a fee
\* schedule and without vesting
PartnerBuildCurveParams ==
    {p \in BuildCurveParams :
        p.feeSchedulerParam = NoScheduler /\ p.lockedVesting = NoVesting}

PartnerMarketCapParams ==
    {p \in MarketCapParams :
        p.feeSchedulerParam = NoScheduler /\ p.lockedVesting = NoVesting}

\* createConfig is called with a configuration a builder has returned
CreateConfigParams ==
    {[config |-> a.config, feeClaimer |-> a.feeClaimer,
      leftoverReceiver |-> a.leftoverReceiver, quoteMint |-> a.quoteMint,
      payer |-> a.payer, configParam |-> BuildCurve(p)] :
        a \in ConfigAccounts, p \in {q \in PartnerBuildCurveParams : BuildCurve(q).ok}}

BuildCurveAndCreateConfigParams ==
    {[config |-> a.config, feeClaimer |-> a.feeClaimer,
      leftoverReceiver |-> a.leftoverReceiver, quoteMint |-> a.quoteMint,
      payer |-> a.payer, buildCurveParam |-> p] :
        a \in ConfigAccounts, p \in PartnerBuildCurveParams}

BuildCurveAndCreateConfigByMarketCapParams ==
    {[config |-> a.config, feeClaimer |-> a.feeClaimer,
      leftoverReceiver |-> a.leftoverReceiver, quoteMint |-> a.quoteMint,
      payer |-> a.payer, buildCurveByMarketCapParam |-> p] :
        a \in ConfigAccounts, p \in PartnerMarketCapParams}

\* the latest point a schedule is asked at again, and how far on
MaxPoint == 1300

PointSteps == {50, 100}

NoFeeCall ==
    [baseFee |-> NoBaseFee, passedPeriod |-> 0, currentPoint |-> 0,
     activationPoint |-> 0]

(***************************************************************************)
(* The state: the SDK keeps none of its own, so the state is the call in   *)
(* progress: which operation was called (op), with what (inp, feeInp), and *)
(* what it returned (res, feeRes).  pc is "idle" between calls and "done"  *)
(* when a call has computed its result.                                    *)
(***************************************************************************)
VARIABLES pc, op, inp, res, feeInp, feeRes

vars == <<pc, op, inp, res, feeInp, feeRes>>

NoResult == Throw("")

Init ==
    /\ pc = "idle"
    /\ op = "none"
    /\ inp = NoParam
    /\ res = NoResult
    /\ feeInp = NoFeeCall
    /\ feeRes = 0

\* One action per operation of the SDK.  A builder's action takes the
\* parameters p of the call and the configuration (or the error) the
\* builder computes from them; Next supplies both.
CallBuildCurve(p, config) ==
    /\ pc = "idle"
    /\ pc' = "done"
    /\ op' = "buildCurve"
    /\ inp' = p
    /\ res' = config
    /\ UNCHANGED <<feeInp, feeRes>>

CallBuildCurveWithMarketCap(p, config) ==
    /\ pc = "idle"
    /\ pc' = "done"
    /\ op' = "buildCurveWithMarketCap"
    /\ inp' = p
    /\ res' = config
    /\ UNCHANGED <<feeInp, feeRes>>

CallBuildCurveWithTwoSegments(p, config) ==
    /\ pc = "idle"
    /\ pc' = "done"
    /\ op' = "buildCurveWithTwoSegments"
    /\ inp' = p
    /\ res' = config
    /\ UNCHANGED <<feeInp, feeRes>>

CallBuildCurveWithLiquidityWeights(p, config) ==
    /\ pc = "idle"
    /\ pc' = "done"
    /\ op' = "buildCurveWithLiquidityWeights"
    /\ inp' = p
    /\ res' = config
    /\ UNCHANGED <<feeInp, feeRes>>

CallBuildCurveWithCreatorFirstBuy(p, config) ==
    /\ pc = "idle"
    /\ pc' = "done"
    /\ op' = "buildCurveWithCreatorFirstBuy"
    /\ inp' = p
    /\ res' = config
    /\ UNCHANGED <<feeInp, feeRes>>

CallBuildCustomConstantProductCurve(p, config) ==
    /\ pc = "idle"
    /\ pc' = "done"
    /\ op' = "buildCustomConstantProductCurve"
    /\ inp' = p
    /\ res' = config
    /\ UNCHANGED <<feeInp, feeRes>>

\* A fee function's action takes the arguments f of the call and the fee
\* the function computes from them.
CallGetFeeInPeriod(f, fee) ==
    /\ pc = "idle"
    /\ f.baseFee.feeSchedulerMode = EXPONENTIAL
    /\ pc' = "done"
    /\ op' = "getFeeInPeriod"
    /\ feeInp' = f
    /\ feeRes' = fee
    /\ UNCHANGED <<inp, res>>

CallGetCurrentBaseFeeNumerator(f, fee) ==
    /\ pc = "idle"
    /\ pc' = "done"
    /\ op' = "getCurrentBaseFeeNumerator"
    /\ feeInp' = f
    /\ feeRes' = fee
    /\ UNCHANGED <<inp, res>>

\* calculateFeeScheduler's action takes the arguments f of the call and the
\* schedule the function computes from them.
CallCalculateFeeScheduler(f, schedule) ==
    /\ pc = "idle"
    /\ pc' = "done"
    /\ op' = "calculateFeeScheduler"
    /\ feeInp' = f
    /\ feeRes' = schedule
    /\ UNCHANGED <<inp, res>>

\* getMinBaseFeeBps's action takes the arguments f of the call and the
\* minimum fee the function computes from them.
CallGetMinBaseFeeBps(f, fee) ==
    /\ pc = "idle"
    /\ pc' = "done"
    /\ op' = "getMinBaseFeeBps"
    /\ feeInp' = f
    /\ feeRes' = fee
    /\ UNCHANGED <<inp, res>>

\* getVariableFee's action takes the arguments f of the call and the fee the
\* function computes from them.
CallGetVariableFee(f, fee) ==
    /\ pc = "idle"
    /\ pc' = "done"
    /\ op' = "getVariableFee"
    /\ feeInp' = f
    /\ feeRes' = fee
    /\ UNCHANGED <<inp, res>>

CallCalculateVolatilityReference(f, reference) ==
    /\ pc = "idle"
    /\ pc' = "done"
    /\ op' = "calculateVolatilityReference"
    /\ feeInp' = f
    /\ feeRes' = reference
    /\ UNCHANGED <<inp, res>>

CallCalculateVolatilityAccumulator(f, accumulator) ==
    /\ pc = "idle"
    /\ pc' = "done"
    /\ op' = "calculateVolatilityAccumulator"
    /\ feeInp' = f
    /\ feeRes' = accumulator
    /\ UNCHANGED <<inp, res>>

CallCalculateDynamicFeeParameters(f, parameters) ==
    /\ pc = "idle"
    /\ pc' = "done"
    /\ op' = "calculateDynamicFeeParameters"
    /\ feeInp' = f
    /\ feeRes' = parameters
    /\ UNCHANGED <<inp, res>>

\* calculateVariableFee is called with the variableFeeControl and the bin
\* step of the parameters calculateDynamicFeeParameters returned
CallCalculateVariableFee(volatilityAccumulator) ==
    /\ pc = "done"
    /\ op = "calculateDynamicFeeParameters"
    /\ op' = "calculateVariableFee"
    /\ feeInp' = [baseFeeBps |-> feeInp.baseFeeBps,
                  targetRatio |-> feeInp.targetRatio,
                  variableFeeControl |-> feeRes.variableFeeControl,
                  volatilityAccumulator |-> volatilityAccumulator,
                  binStep |-> feeRes.binStep]
    /\ feeRes' = CalculateVariableFee(feeRes.variableFeeControl, volatilityAccumulator,
                                      feeRes.binStep)
    /\ UNCHANGED <<pc, inp, res>>

CallGetLockedVesting(f, lockedVesting) ==
    /\ pc = "idle"
    /\ pc' = "done"
    /\ op' = "getLockedVesting"
    /\ feeInp' = f
    /\ feeRes' = lockedVesting
    /\ UNCHANGED <<inp, res>>

\* getTotalVestingAmount is called with the schedule getLockedVesting
\* returned
CallGetTotalVestingAmount ==
    /\ pc = "done"
    /\ op = "getLockedVesting"
    /\ op' = "getTotalVestingAmount"
    /\ feeInp' = [derivedFrom |-> feeInp, lockedVesting |-> feeRes]
    /\ feeRes' = GetTotalVestingAmount(feeRes)
    /\ UNCHANGED <<pc, inp, res>>

CallGetTotalTokenSupply(f, totalAmount) ==
    /\ pc = "idle"
    /\ pc' = "done"
    /\ op' = "getTotalTokenSupply"
    /\ feeInp' = f
    /\ feeRes' = totalAmount
    /\ UNCHANGED <<inp, res>>

CallIsDefaultLockedVesting(lockedVesting, isDefault) ==
    /\ pc = "idle"
    /\ pc' = "done"
    /\ op' = "isDefaultLockedVesting"
    /\ feeInp' = lockedVesting
    /\ feeRes' = isDefault
    /\ UNCHANGED <<inp, res>>

CallGetCurveProgress(poolState, progress) ==
    /\ pc = "idle"
    /\ pc' = "done"
    /\ op' = "getCurveProgress"
    /\ feeInp' = poolState
    /\ feeRes' = progress
    /\ UNCHANGED <<inp, res>>

\* prepareTokenAccounts starts both lookups and awaits them
CallPrepareTokenAccounts(call) ==
    /\ pc = "idle"
    /\ pc' = "awaiting"
    /\ op' = "prepareTokenAccounts"
    /\ feeInp' = [call |-> call, promises |-> <<Unsettled, Unsettled>>,
                  settled |-> <<>>]
    /\ feeRes' = 0
    /\ UNCHANGED <<inp, res>>

\* the lookup of token A (i = 1) or of token B (i = 2) settles, having found
\* the account or not
SettleGetOrCreateATAInstruction(i, accountExists) ==
    /\ pc = "awaiting"
    /\ op = "prepareTokenAccounts"
    /\ \A k \in 1..Len(feeInp.settled) : feeInp.settled[k] # i
    /\ feeInp' =
         [feeInp EXCEPT
            !.promises[i] =
                GetOrCreateATAInstruction(
                    IF i = 1 THEN feeInp.call.tokenAMint ELSE feeInp.call.tokenBMint,
                    feeInp.call.owner, feeInp.call.owner,
                    IF i = 1 THEN feeInp.call.tokenAProgram
                    ELSE feeInp.call.tokenBProgram,
                    accountExists),
            !.settled = Append(@, i)]
    /\ UNCHANGED <<pc, op, inp, res, feeRes>>

\* a lookup rejects: Promise.all rejects and prepareTokenAccounts throws
RejectGetOrCreateATAInstruction(i) ==
    /\ pc = "awaiting"
    /\ op = "prepareTokenAccounts"
    /\ \A k \in 1..Len(feeInp.settled) : feeInp.settled[k] # i
    /\ pc' = "done"
    /\ feeRes' = Fail(LookupRejected)
    /\ UNCHANGED <<op, inp, res, feeInp>>

\* both lookups have settled: prepareTokenAccounts returns
ReturnPrepareTokenAccounts ==
    /\ pc = "awaiting"
    /\ op = "prepareTokenAccounts"
    /\ Len(feeInp.settled) = 2
    /\ pc' = "done"
    /\ feeRes' = Ok(PrepareTokenAccounts(feeInp.promises, feeInp.settled))
    /\ UNCHANGED <<op, inp, res, feeInp>>

\* getBuyInstructionsPreLaunch's action takes the call, what getAccountInfo
\* answers for the input and the output token account, and the list the
\* function computes from them
CallGetBuyInstructionsPreLaunch(call, inputTokenAccountInfo, outputTokenAccountInfo, instructions) ==
    /\ pc = "idle"
    /\ pc' = "done"
    /\ op' = "getBuyInstructionsPreLaunch"
    /\ feeInp' = [call |-> call, inputTokenAccountInfo |-> inputTokenAccountInfo,
                  outputTokenAccountInfo |-> outputTokenAccountInfo]
    /\ feeRes' = instructions
    /\ UNCHANGED <<inp, res>>

\* A partner-service action takes the parameter of the call, whether
\* validateConfigParameters rejects the configuration, and what the method
\* validated and returned.
CallCreateConfig(param, rejects, outcome) ==
    /\ pc = "idle"
    /\ pc' = "done"
    /\ op' = "createConfig"
    /\ feeInp' = [param |-> param, rejects |-> rejects, validated |-> outcome.validated]
    /\ feeRes' = outcome.result
    /\ UNCHANGED <<inp, res>>

CallBuildCurveAndCreateConfig(param, rejects, outcome) ==
    /\ pc = "idle"
    /\ pc' = "done"
    /\ op' = "buildCurveAndCreateConfig"
    /\ feeInp' = [param |-> param, rejects |-> rejects, validated |-> outcome.validated]
    /\ feeRes' = outcome.result
    /\ UNCHANGED <<inp, res>>

CallBuildCurveAndCreateConfigByMarketCap(param, rejects, outcome) ==
    /\ pc = "idle"
    /\ pc' = "done"
    /\ op' = "buildCurveAndCreateConfigByMarketCap"
    /\ feeInp' = [param |-> param, rejects |-> rejects, validated |-> outcome.validated]
    /\ feeRes' = outcome.result
    /\ UNCHANGED <<inp, res>>

\* getCurrentBaseFeeNumerator is called again for the same schedule, step
\* points later
CallGetCurrentBaseFeeNumeratorLater(step) ==
    /\ pc = "done"
    /\ op = "getCurrentBaseFeeNumerator"
    /\ feeInp.currentPoint + step <= MaxPoint
    /\ feeInp' = [feeInp EXCEPT !.currentPoint = @ + step]
    /\ feeRes' = GetCurrentBaseFeeNumerator(feeInp.baseFee, feeInp.currentPoint + step,
                                            feeInp.activationPoint)
    /\ UNCHANGED <<pc, op, inp, res>>

\* the call returns: nothing of it stays behind
Return ==
    /\ pc = "done"
    /\ pc' = "idle"
    /\ op' = "none"
    /\ inp' = NoParam
    /\ res' = NoResult
    /\ feeInp' = NoFeeCall
    /\ feeRes' = 0

\* the arguments of the fee calls
FeeInPeriodCalls ==
    {[NoFeeCall EXCEPT !.baseFee = [baseFee EXCEPT !.cliffFeeNumerator = cliff],
                       !.passedPeriod = period] :
        baseFee \in FeeSchedules, cliff \in CliffFees, period \in 0..MaxPeriod}

CurrentBaseFeeCalls ==
    {[NoFeeCall EXCEPT !.baseFee = baseFee, !.currentPoint = currentPoint,
                       !.activationPoint = activationPoint] :
        baseFee \in FeeSchedules, currentPoint \in CurrentPoints,
        activationPoint \in ActivationPoints}

Next ==
    \/ \E p \in BuildCurveParams : CallBuildCurve(p, BuildCurve(p))
    \/ \E p \in MarketCapParams :
           CallBuildCurveWithMarketCap(p, BuildCurveWithMarketCap(p))
    \/ \E p \in TwoSegmentsParams :
           CallBuildCurveWithTwoSegments(p, BuildCurveWithTwoSegments(p))
    \/ \E p \in LiquidityWeightsParams :
           CallBuildCurveWithLiquidityWeights(p, BuildCurveWithLiquidityWeights(p))
    \/ \E p \in CreatorFirstBuyParams :
           CallBuildCurveWithCreatorFirstBuy(p, BuildCurveWithCreatorFirstBuy(p))
    \/ \E p \in CustomParams :
           CallBuildCustomConstantProductCurve(p, BuildCustomConstantProductCurve(p))
    \/ \E f \in FeeInPeriodCalls :
           CallGetFeeInPeriod(f, GetFeeInPeriod(f.baseFee.cliffFeeNumerator,
                                                f.baseFee.reductionFactor,
                                                f.passedPeriod))
    \/ \E f \in CurrentBaseFeeCalls :
           CallGetCurrentBaseFeeNumerator(
               f, GetCurrentBaseFeeNumerator(f.baseFee, f.currentPoint,
                                             f.activationPoint))
    \/ \E step \in PointSteps : CallGetCurrentBaseFeeNumeratorLater(step)
    \/ \E f \in MinBaseFeeCalls :
           CallGetMinBaseFeeBps(
               f, GetMinBaseFeeBps(f.baseFee.cliffFeeNumerator, f.baseFee.numberOfPeriod,
                                   f.baseFee.reductionFactor,
                                   f.baseFee.feeSchedulerMode))
    \/ \E f \in VariableFeeCalls :
           CallGetVariableFee(f, GetVariableFee(f.dynamicFee, f.volatilityTracker))
    \/ \E f \in VolatilityReferenceCalls :
           CallCalculateVolatilityReference(f,
               CalculateVolatilityReference(f.timeElapsed, f.filterPeriod, f.decayPeriod,
                   f.reductionFactor, f.previousVolatilityAccumulator))
    \/ \E f \in VolatilityAccumulatorCalls :
           CallCalculateVolatilityAccumulator(f,
               CalculateVolatilityAccumulator(f.volatilityReference, f.indexReference,
                   f.activeId, f.k))
    \/ \E f \in DynamicFeeParameterCalls :
           CallCalculateDynamicFeeParameters(f,
               CalculateDynamicFeeParameters(f.baseFeeBps, f.targetRatio))
    \/ \E volatilityAccumulator \in UnitVolatilityAccumulators :
           CallCalculateVariableFee(volatilityAccumulator)
    \/ \E f \in LockedVestingCalls :
           CallGetLockedVesting(f,
               GetLockedVesting(f.totalVestingAmount, f.numberOfPeriod, f.amountPerPeriod,
                   f.cliffDurationFromMigrationTime, f.frequency, f.tokenBaseDecimal))
    \/ CallGetTotalVestingAmount
    \/ \E f \in TotalTokenSupplyCalls :
           CallGetTotalTokenSupply(f,
               GetTotalTokenSupply(f.swapBaseAmount, f.migrationBaseThreshold,
                                   f.lockedVestingParams))
    \/ \E lockedVesting \in LockedVestingSchedules :
           CallIsDefaultLockedVesting(lockedVesting, IsDefaultLockedVesting(lockedVesting))
    \/ \E poolState \in PoolStates :
           CallGetCurveProgress(poolState, GetCurveProgress(poolState))
    \/ \E call \in PrepareTokenAccountsCalls : CallPrepareTokenAccounts(call)
    \/ \E i \in {1, 2}, accountExists \in BOOLEAN :
           SettleGetOrCreateATAInstruction(i, accountExists)
    \/ \E i \in {1, 2} : RejectGetOrCreateATAInstruction(i)
    \/ ReturnPrepareTokenAccounts
    \/ \E call \in PreLaunchSwaps, inputInfo \in AccountInfos, outputInfo \in AccountInfos :
           CallGetBuyInstructionsPreLaunch(
               call, inputInfo, outputInfo,
               GetBuyInstructionsPreLaunch(call, inputInfo, outputInfo))
    \/ \E param \in CreateConfigParams, rejects \in BOOLEAN :
           CallCreateConfig(param, rejects, CreateConfig(param, rejects))
    \/ \E param \in BuildCurveAndCreateConfigParams, rejects \in BOOLEAN :
           CallBuildCurveAndCreateConfig(param, rejects,
                                         BuildCurveAndCreateConfig(param, rejects))
    \/ \E param \in BuildCurveAndCreateConfigByMarketCapParams, rejects \in BOOLEAN :
           CallBuildCurveAndCreateConfigByMarketCap(
               param, rejects, BuildCurveAndCreateConfigByMarketCap(param, rejects))
    \/ \E f \in FeeSchedulerCalls :
           CallCalculateFeeScheduler(
               f, CalculateFeeScheduler(f.startingFeeBps, f.endingFeeBps,
                                        f.feeSchedulerMode, f.numberOfPeriod,
                                        f.totalDuration))
    \/ Return

Spec == Init /\ [][Next]_vars

(***************************************************************************)
(* Properties of the builders.                                             *)
(***************************************************************************)
\* the builders of helpers/buildCurve.ts, and with build.ts's all builders
HelperBuilders ==
    {"buildCurve", "buildCurveWithMarketCap", "buildCurveWithTwoSegments",
     "buildCurveWithLiquidityWeights", "buildCurveWithCreatorFirstBuy"}

Builders == HelperBuilders \cup {"buildCustomConstantProductCurve"}

\* the builders that end in buildCurve's arithmetic
SingleSegmentBuilders ==
    {"buildCurve", "buildCurveWithMarketCap", "buildCustomConstantProductCurve"}

\* a call of one of the builders has returned a configuration
Returned(builders) == pc = "done" /\ op \in builders /\ res.ok

\* a call of one of the builders has ended, with a configuration or an error
Ended(builders) == pc = "done" /\ op \in builders

RECURSIVE CurveBaseAmount(_, _, _)
\* the base token the segments i, i+1, ... of a curve represent: each
\* segment's ceil(L * (upper - lower) / (lower * upper)), the first segment's
\* lower price being lower
CurveBaseAmount(i, lower, curve) ==
    IF i > Len(curve) THEN 0
    ELSE (IF lower * curve[i].sqrtPrice = 0 THEN 0
          ELSE BNMulDivUp(curve[i].liquidity, curve[i].sqrtPrice - lower,
                          lower * curve[i].sqrtPrice))
         + CurveBaseAmount(i + 1, curve[i].sqrtPrice, curve)

\* the base token of the returned curve, the vesting and the leftover
RepresentedSupply ==
    CurveBaseAmount(1, res.sqrtStartPrice, res.curve)
        + GetTotalVestingAmount(inp.lockedVesting) + res.totalLeftover

TotalSupply == res.preMigrationTokenSupply

\* C1: buildCustomConstantProductCurve throws its error for both pairs when
\* percentageSupplyOnMigration with migrationQuoteThreshold and
\* initialMarketCap with migrationMarketCap are all given, throws its error
\* for no pair when neither pair is given in full, whatever the arithmetic
\* would have made of the inputs, and throws neither of the two when exactly
\* one pair is given in full.
C1_PairValidation ==
    Ended({"buildCustomConstantProductCurve"}) =>
        LET percentagePair ==
                inp.hasPercentageSupplyOnMigration /\ inp.hasMigrationQuoteThreshold
            marketCapPair == inp.hasInitialMarketCap /\ inp.hasMigrationMarketCap
        IN  /\ (percentagePair /\ marketCapPair)
                => (~res.ok /\ res.err = BothPairsError)
            /\ (~percentagePair /\ ~marketCapPair)
                => (~res.ok /\ res.err = NeitherPairError)
            /\ (percentagePair # marketCapPair)
                => res.err \notin {BothPairsError, NeitherPairError}

\* C1's case: a call with one pair in full and one field of the other pair
\* has gone on to build and returned a configuration
C1_Witness ==
    /\ Returned({"buildCustomConstantProductCurve"})
    /\ inp.hasInitialMarketCap /\ inp.hasMigrationMarketCap
    /\ inp.hasPercentageSupplyOnMigration /\ ~inp.hasMigrationQuoteThreshold

\* C2, as the specification states it: for every successful build by a
\* builder of helpers/buildCurve.ts, the base token the returned curve's
\* segments represent plus the vesting plus the leftover lies within
\* [totalSupply - leftover, totalSupply].
C2_Conservation ==
    Returned(HelperBuilders) =>
        /\ RepresentedSupply >= TotalSupply - res.totalLeftover
        /\ RepresentedSupply <= TotalSupply

\* C2, amended: for every successful build by a builder of
\* helpers/buildCurve.ts, the base token the returned curve's segments
\* represent plus the vesting plus the leftover is at most totalSupply.  The
\* lower bound does not hold: the base token set aside for migration is on
\* no segment.
C2_SupplyNotExceeded ==
    Returned(HelperBuilders) => RepresentedSupply <= TotalSupply

\* C2's case: a build with a leftover has returned a curve whose segments,
\* with the vesting and the leftover, stay below totalSupply - leftover
C2_Witness ==
    /\ Returned(HelperBuilders)
    /\ res.totalLeftover > 0
    /\ \A i \in 1..Len(res.curve) : res.curve[i].liquidity > 0
    /\ RepresentedSupply < TotalSupply - res.totalLeftover

\* C3: in every builder, when totalDynamicSupply exceeds totalSupply the
\* build returns a configuration only if the excess is less than the
\* leftover.
C3_LeftoverCheck ==
    (Returned(Builders) /\ res.totalDynamicSupply > TotalSupply) =>
        res.totalDynamicSupply - TotalSupply < res.totalLeftover

DrainLiquidity(migrationSqrtPrice) ==
    BNMulDiv((TotalSupply - res.totalDynamicSupply) * migrationSqrtPrice,
             MAX_SQRT_PRICE, MAX_SQRT_PRICE - migrationSqrtPrice)

MigrationMarketCapSqrtPrice ==
    GetSqrtPriceFromMarketCap(inp.migrationMarketCap, inp.totalTokenSupply,
                              inp.tokenBaseDecimal, inp.tokenQuoteDecimal)

C6_SegmentRange ==
    Returned(Builders) =>
        \A i \in 1..Len(res.curve) :
            /\ res.curve[i].liquidity >= 0
            /\ res.curve[i].sqrtPrice <= MAX_SQRT_PRICE

\* C7: buildCurveWithCreatorFirstBuy throws its error for the first price
\* whenever the first buy's start price p0 is pMin or above it, and returns a
\* configuration only when p0 is below pMin.
C7_FirstPriceRejected ==
    (Ended({"buildCurveWithCreatorFirstBuy"}) /\ FirstBuyP0(inp).ok) =>
        /\ FirstBuyP0(inp).val >= FirstBuyPMin(inp)
               => (~res.ok /\ res.err = FirstPriceError)
        /\ res.ok => FirstBuyP0(inp).val < FirstBuyPMin(inp)

(***************************************************************************)
(* Properties of the fee scheduler.                                        *)
(***************************************************************************)
\* a call of a fee function has returned
FeeReturned(function) == pc = "done" /\ op = function

\* C9: in both modes the fee of a schedule is never negative and never above
\* the cliff fee, which is the fee at period 0; so the fee at the final
\* period is not above the fee at period 0, also for a linear schedule whose
\* numberOfPeriod * reductionFactor exceeds the cliff fee.
C9_FeeDecayBounds ==
    /\ FeeReturned("getFeeInPeriod") =>
           /\ feeRes >= 0
           /\ feeRes <= feeInp.baseFee.cliffFeeNumerator
           /\ feeInp.passedPeriod = 0 => feeRes = feeInp.baseFee.cliffFeeNumerator
    /\ FeeReturned("getCurrentBaseFeeNumerator") =>
           /\ feeRes >= 0
           /\ feeRes <= feeInp.baseFee.cliffFeeNumerator
           /\ (/\ feeInp.baseFee.periodFrequency > 0
               /\ feeInp.currentPoint >= feeInp.activationPoint
               /\ feeInp.currentPoint - feeInp.activationPoint
                      < feeInp.baseFee.periodFrequency)
                  => feeRes = feeInp.baseFee.cliffFeeNumerator

\* C9's case: a linear schedule whose reductions exceed the cliff fee has
\* been asked for its fee at the final period, and that fee is zero
C9_Witness ==
    /\ FeeReturned("getCurrentBaseFeeNumerator")
    /\ feeInp.baseFee.feeSchedulerMode = LINEAR
    /\ feeInp.baseFee.periodFrequency > 0
    /\ feeInp.currentPoint < feeInp.activationPoint
    /\ feeInp.baseFee.numberOfPeriod * feeInp.baseFee.reductionFactor
           > feeInp.baseFee.cliffFeeNumerator
    /\ feeRes = 0

\* C10: getCurrentBaseFeeNumerator gives the fee at period numberOfPeriod
\* when the current point is before the activation point, and else at
\* period min(numberOfPeriod, floor((currentPoint - activationPoint) /
\* periodFrequency)); the linear schedule with cliff 1000, reduction 50, 10
\* periods and frequency 100, activated at 100, gives 500 at point 50 and 900
\* at point 300.
C10_CurrentBaseFeePeriod ==
    (FeeReturned("getCurrentBaseFeeNumerator") /\ feeInp.baseFee.periodFrequency > 0) =>
        LET baseFee == feeInp.baseFee
            elapsed == feeInp.currentPoint - feeInp.activationPoint
            period ==
                IF elapsed < 0 THEN baseFee.numberOfPeriod
                ELSE IF elapsed \div baseFee.periodFrequency < baseFee.numberOfPeriod
                THEN elapsed \div baseFee.periodFrequency
                ELSE baseFee.numberOfPeriod
            linearFee ==
                IF period * baseFee.reductionFactor > baseFee.cliffFeeNumerator THEN 0
                ELSE baseFee.cliffFeeNumerator - period * baseFee.reductionFactor
        IN  /\ baseFee.feeSchedulerMode = LINEAR => feeRes = linearFee
            /\ baseFee.feeSchedulerMode = EXPONENTIAL =>
                   feeRes = GetFeeInPeriod(baseFee.cliffFeeNumerator,
                                           baseFee.reductionFactor, period)
            /\ (/\ baseFee.feeSchedulerMode = LINEAR
                /\ baseFee.cliffFeeNumerator = 1000
                /\ baseFee.reductionFactor = 50
                /\ baseFee.numberOfPeriod = 10
                /\ baseFee.periodFrequency = 100
                /\ feeInp.activationPoint = 100)
                   => /\ feeInp.currentPoint = 50 => feeRes = 500
                      /\ feeInp.currentPoint = 300 => feeRes = 900

\* C10's case: the linear schedule of cliff 1000, reduction 50, 10 periods
\* and frequency 100 has been asked for its fee before activation
C10_Witness ==
    /\ FeeReturned("getCurrentBaseFeeNumerator")
    /\ feeInp.baseFee =
           [cliffFeeNumerator |-> 1000, numberOfPeriod |-> 10, reductionFactor |-> 50,
            periodFrequency |-> 100, feeSchedulerMode |-> LINEAR]
    /\ feeInp.currentPoint = 50
    /\ feeInp.activationPoint = 100
    /\ feeRes = 500

\* C11: for a schedule with periodFrequency > 0, from the activation point
\* on the fee of getCurrentBaseFeeNumerator is the cliff fee at the activation
\* point, never rises from one call to a later one, and from
\* activationPoint + numberOfPeriod * periodFrequency on is the fee at the
\* last period.
C11_FeeDecaysToFloor ==
    /\ [][(/\ FeeReturned("getCurrentBaseFeeNumerator")
           /\ op' = op
           /\ feeInp.baseFee.periodFrequency > 0
           /\ feeInp'.baseFee = feeInp.baseFee
           /\ feeInp'.activationPoint = feeInp.activationPoint
           /\ feeInp.currentPoint >= feeInp.activationPoint
           /\ feeInp'.currentPoint >= feeInp.currentPoint)
              => feeRes' <= feeRes]_vars
    /\ []((/\ FeeReturned("getCurrentBaseFeeNumerator")
           /\ feeInp.baseFee.periodFrequency > 0)
              => LET baseFee == feeInp.baseFee
                     lastPoint == feeInp.activationPoint
                                      + baseFee.numberOfPeriod * baseFee.periodFrequency
                     lastFee ==
                         IF baseFee.feeSchedulerMode = LINEAR
                         THEN Max(0, baseFee.cliffFeeNumerator
                                         - baseFee.numberOfPeriod * baseFee.reductionFactor)
                         ELSE GetFeeInPeriod(baseFee.cliffFeeNumerator,
                                             baseFee.reductionFactor,
                                             baseFee.numberOfPeriod)
                 IN  /\ feeInp.currentPoint = feeInp.activationPoint
                            => feeRes = baseFee.cliffFeeNumerator
                     /\ feeInp.currentPoint >= lastPoint => feeRes = lastFee)

\* C11's case: a schedule that decays has been asked again, at a point past
\* its last period that only a later call reaches, and is at its last fee
C11_Witness ==
    /\ FeeReturned("getCurrentBaseFeeNumerator")
    /\ feeInp.baseFee.periodFrequency > 0
    /\ feeInp.baseFee.reductionFactor > 0
    /\ feeInp.currentPoint \notin CurrentPoints
    /\ feeInp.currentPoint > feeInp.activationPoint
           + feeInp.baseFee.numberOfPeriod * feeInp.baseFee.periodFrequency
    /\ feeRes < feeInp.baseFee.cliffFeeNumerator

\* C12: for a linear schedule calculateFeeScheduler returns the reduction
\* factor floor((startingFeeBps - endingFeeBps) * (FEE_DENOMINATOR /
\* BASIS_POINT_MAX) / numberOfPeriod), which is 2777777 for 5000 bps, 1000 bps
\* and 144 periods, so that cliffFeeNumerator - numberOfPeriod *
\* reductionFactor is not below the ending fee numerator and is above it by
\* less than numberOfPeriod.
C12_LinearReductionFactor ==
    (FeeReturned("calculateFeeScheduler") /\ feeInp.feeSchedulerMode = LINEAR) =>
        LET scale == FEE_DENOMINATOR \div BASIS_POINT_MAX
            endingFeeNumerator == feeInp.endingFeeBps * scale
            lastFee == feeRes.cliffFeeNumerator
                           - feeInp.numberOfPeriod * feeRes.reductionFactor
        IN  /\ feeRes.reductionFactor =
                   ((feeInp.startingFeeBps - feeInp.endingFeeBps) * scale)
                       \div feeInp.numberOfPeriod
            /\ lastFee >= endingFeeNumerator
            /\ lastFee - endingFeeNumerator < feeInp.numberOfPeriod
            /\ (/\ feeInp.startingFeeBps = 5000
                /\ feeInp.endingFeeBps = 1000
                /\ feeInp.numberOfPeriod = 144) => feeRes.reductionFactor = 2777777

\* C12's case: the linear schedule from 5000 bps to 1000 bps over 144
\* periods has been calculated, with a remainder left above the ending fee
C12_Witness ==
    /\ FeeReturned("calculateFeeScheduler")
    /\ feeInp.feeSchedulerMode = LINEAR
    /\ feeInp.startingFeeBps = 5000
    /\ feeInp.endingFeeBps = 1000
    /\ feeInp.numberOfPeriod = 144
    /\ feeRes.reductionFactor = 2777777
    /\ feeRes.cliffFeeNumerator - 144 * feeRes.reductionFactor > 1000 * 100000

\* C13, as the specification states it: getFeeInPeriod returns the cliff fee
\* for reduction factor 0 at every period and for period 0 at every reduction
\* factor, and a fee strictly below the cliff fee for a positive reduction
\* factor and a period of 1 or more; cliff 1000, factor 100, period 1 give 990.
C13_NoDecayElseBelowCliff ==
    FeeReturned("getFeeInPeriod") =>
        LET cliff == feeInp.baseFee.cliffFeeNumerator
            factor == feeInp.baseFee.reductionFactor
        IN  /\ factor = 0 => feeRes = cliff
            /\ feeInp.passedPeriod = 0 => feeRes = cliff
            /\ (factor > 0 /\ feeInp.passedPeriod >= 1) => feeRes < cliff
            /\ (cliff = 1000 /\ factor = 100 /\ feeInp.passedPeriod = 1)
                   => feeRes = 990

\* C13, amended: the same, but the fee is strictly below the cliff fee only
\* when the cliff fee is positive; a cliff fee of 0 stays 0.
C13_NoDecayElseBelowPositiveCliff ==
    FeeReturned("getFeeInPeriod") =>
        LET cliff == feeInp.baseFee.cliffFeeNumerator
            factor == feeInp.baseFee.reductionFactor
        IN  /\ factor = 0 => feeRes = cliff
            /\ feeInp.passedPeriod = 0 => feeRes = cliff
            /\ (factor > 0 /\ feeInp.passedPeriod >= 1 /\ cliff > 0) => feeRes < cliff
            /\ (factor > 0 /\ feeInp.passedPeriod >= 1 /\ cliff = 0) => feeRes = 0
            /\ (cliff = 1000 /\ factor = 100 /\ feeInp.passedPeriod = 1)
                   => feeRes = 990

\* C13's case: the fee of cliff 1000 and factor 100 has been asked at period
\* 1, and is 990
C13_Witness ==
    /\ FeeReturned("getFeeInPeriod")
    /\ feeInp.baseFee.cliffFeeNumerator = 1000
    /\ feeInp.baseFee.reductionFactor = 100
    /\ feeInp.passedPeriod = 1
    /\ feeRes = 990

C16_VolatilityReferenceDecays ==
    FeeReturned("calculateVolatilityReference") =>
        LET previous == feeInp.previousVolatilityAccumulator
        IN  /\ feeInp.timeElapsed < feeInp.filterPeriod
                => feeRes = previous * BASIS_POINT_MAX
            /\ (/\ feeInp.timeElapsed >= feeInp.filterPeriod
                /\ feeInp.timeElapsed >= feeInp.decayPeriod) => feeRes = 0
            /\ (/\ feeInp.timeElapsed >= feeInp.filterPeriod
                /\ feeInp.timeElapsed < feeInp.decayPeriod)
                => feeRes = feeInp.reductionFactor * previous
            /\ feeInp.reductionFactor <= BASIS_POINT_MAX
                => feeRes <= previous * BASIS_POINT_MAX

\* C16's case: between the filter period and the decay period a reference
\* of 1000 has been halved by the reduction factor 5000
C16_Witness ==
    /\ FeeReturned("calculateVolatilityReference")
    /\ feeInp.filterPeriod = 10
    /\ feeInp.timeElapsed = 60
    /\ feeInp.decayPeriod = 120
    /\ feeInp.reductionFactor = 5000
    /\ feeInp.previousVolatilityAccumulator = 1000
    /\ feeRes = 500 * BASIS_POINT_MAX

\* C17: the accumulator calculateVolatilityAccumulator returns is
\* volatilityReference + |indexReference - (activeId + k)| clamped to
\* maxVolatilityAccumulator, so it never exceeds maxVolatilityAccumulator.
C17_AccumulatorClamped ==
    FeeReturned("calculateVolatilityAccumulator") =>
        /\ feeRes = Min(feeInp.volatilityReference
                            + Abs(feeInp.indexReference - (feeInp.activeId + feeInp.k)),
                        feeInp.maxVolatilityAccumulator)
        /\ feeRes <= feeInp.maxVolatilityAccumulator

\* whether control is floor(baseFeeBps * 100000 * targetRatio), which is
\* targetRatio of the base fee numerator rounded down
IsRatioOfBaseFeeNumerator(control, baseFeeBps, targetRatio) ==
    LET numerator == BpsToFeeNumerator(baseFeeBps)
    IN  /\ control * targetRatio[2] <= numerator * targetRatio[1]
        /\ numerator * targetRatio[1] < (control + 1) * targetRatio[2]

\* C18: calculateDynamicFeeParameters(baseFeeBps, targetRatio) returns
\* variableFeeControl = floor(baseFeeBps * 100000 * targetRatio), so that
\* calculateVariableFee(variableFeeControl, 1, 1) is targetRatio of the base
\* fee numerator rounded down; binStep 1, filterPeriod 10, decayPeriod 120,
\* reductionFactor 5000 and maxVolatilityAccumulator 100000 are returned
\* for every input.
C18_DynamicFeeParameters ==
    /\ FeeReturned("calculateDynamicFeeParameters") =>
           /\ IsRatioOfBaseFeeNumerator(feeRes.variableFeeControl, feeInp.baseFeeBps,
                                        feeInp.targetRatio)
           /\ feeRes.binStep = 1
           /\ feeRes.filterPeriod = 10
           /\ feeRes.decayPeriod = 120
           /\ feeRes.reductionFactor = 5000
           /\ feeRes.maxVolatilityAccumulator = 100000
    /\ (FeeReturned("calculateVariableFee") /\ feeInp.volatilityAccumulator = 1) =>
           /\ feeInp.binStep = 1
           /\ IsRatioOfBaseFeeNumerator(feeRes, feeInp.baseFeeBps, feeInp.targetRatio)

\* C18's case: the variable fee at unit volatility of the parameters for 25
\* basis points and a third has been computed, and is 833333
C18_Witness ==
    /\ FeeReturned("calculateVariableFee")
    /\ feeInp.volatilityAccumulator = 1
    /\ feeInp.baseFeeBps = 25
    /\ feeInp.targetRatio = <<1, 3>>
    /\ feeRes = 833333

\* the least fee numerator of an emitted base fee: the cliff fee when the
\* schedule has no decay, the fee at the final period when it decays
MinEmittedBaseFee(baseFee) ==
    IF /\ baseFee.numberOfPeriod = 0
       /\ baseFee.reductionFactor = 0
       /\ baseFee.periodFrequency = 0
    THEN baseFee.cliffFeeNumerator
    ELSE GetMinBaseFeeBps(baseFee.cliffFeeNumerator, baseFee.numberOfPeriod,
                          baseFee.reductionFactor, baseFee.feeSchedulerMode)

\* C19: when dynamicFeeEnabled is true, each builder sizes the dynamic fee
\* it emits as 20% of the minimum base fee of the base fee schedule it
\* emits in the same configuration: of the fee at the final period when the
\* emitted schedule decays, of baseFeeBps when it has no decay.
C19_DynamicFeeOfEmittedSchedule ==
    (Returned(HelperBuilders) /\ inp.dynamicFeeEnabled) =>
        /\ res.dynamicFee.enabled
        /\ res.dynamicFee.variableFeeControl = MinEmittedBaseFee(res.baseFee) \div 5

C21_TotalTokenSupplyOrOverflow ==
    FeeReturned("getTotalTokenSupply") =>
        LET vesting == feeInp.lockedVestingParams
            total == feeInp.swapBaseAmount + feeInp.migrationBaseThreshold
                         + vesting.cliffUnlockAmount
                         + vesting.amountPerPeriod * vesting.numberOfPeriod
        IN  IF total >= 0 /\ total < 2^SupplyBits
            THEN feeRes.ok /\ feeRes.val = total
            ELSE ~feeRes.ok /\ feeRes.err = MathOverflow

\* C21's case: the largest total that fits has been returned, vesting
\* included
C21_Witness ==
    /\ FeeReturned("getTotalTokenSupply")
    /\ feeInp.lockedVestingParams.amountPerPeriod * feeInp.lockedVestingParams.numberOfPeriod > 0
    /\ feeRes.ok
    /\ feeRes.val = 2^SupplyBits - 1

\* the fields of a locked vesting schedule
LockedVestingFields ==
    {"amountPerPeriod", "cliffDurationFromMigrationTime", "frequency",
     "numberOfPeriod", "cliffUnlockAmount"}

\* C22: isDefaultLockedVesting returns true if and only if all five fields
\* of the schedule are zero; a schedule with any single field that is not
\* zero is reported as not default.
C22_DefaultIffAllZero ==
    FeeReturned("isDefaultLockedVesting") =>
        /\ feeRes <=> (\A field \in LockedVestingFields : feeInp[field] = 0)
        /\ (\E field \in LockedVestingFields :
               /\ feeInp[field] # 0
               /\ \A other \in LockedVestingFields \ {field} : feeInp[other] = 0)
               => ~feeRes

\* C22's case: a schedule whose only field that is not zero is the frequency
\* has been reported as not default
C22_Witness ==
    /\ FeeReturned("isDefaultLockedVesting")
    /\ feeInp.frequency = 1
    /\ \A field \in LockedVestingFields \ {"frequency"} : feeInp[field] = 0
    /\ ~feeRes

(***************************************************************************)
(* Properties of the program service.                                      *)
(***************************************************************************)
\* C23: getCurveProgress returns a ratio between 0 and 1 inclusive for every
\* existing pool, equal to quoteReserve / migrationQuoteThreshold clamped to
\* [0, 1], for all values of quoteReserve and migrationQuoteThreshold,
\* a zero threshold included; it throws "Pool not found" when the pool does
\* not exist.
C23_ProgressInUnitInterval ==
    FeeReturned("getCurveProgress") =>
        IF ~feeInp.exists THEN ~feeRes.ok /\ feeRes.err = PoolNotFound
        ELSE /\ feeRes.ok
             /\ feeRes.val.kind = "finite"
             /\ 0 <= feeRes.val.num
             /\ feeRes.val.num <= feeRes.val.den
             /\ feeInp.migrationQuoteThreshold > 0 =>
                    feeRes.val.num * feeInp.migrationQuoteThreshold
                        = Min(feeInp.quoteReserve, feeInp.migrationQuoteThreshold)
                              * feeRes.val.den

(***************************************************************************)
(* Properties of the weighted builders.                                    *)
(***************************************************************************)
WeightedBuilders == {"buildCurveWithLiquidityWeights", "buildCurveWithCreatorFirstBuy"}

\* pMax: the sqrt price of the call's migration market cap
MigrationMarketCapPrice ==
    GetSqrtPriceFromMarketCap(inp.migrationMarketCap, inp.totalTokenSupply,
                              inp.tokenBaseDecimal, inp.tokenQuoteDecimal)

\* the base token consumed trading from the returned start price to pMax,
\* recomputed from the returned segments, and the same with its buffer
ConsumedOnReturnedCurve ==
    GetBaseTokenForSwap(res.sqrtStartPrice, MigrationMarketCapPrice, res.curve)

BufferedOnReturnedCurve ==
    GetSwapAmountWithBuffer(ConsumedOnReturnedCurve.val, res.sqrtStartPrice, res.curve)

\* what remains of the supply for the migration after vesting, leftover
\* and the buffered consumption
MigrationAmountOfReturnedCurve ==
    res.preMigrationTokenSupply - GetTotalVestingAmount(inp.lockedVesting)
        - res.totalLeftover - BufferedOnReturnedCurve.val

\* C24: in buildCurveWithLiquidityWeights and buildCurveWithCreatorFirstBuy
\* the migration amount is the remainder of totalSwapAndMigrationAmount after
\* the buffered base consumption recomputed from the emitted segments, so
\* that buffered consumption + migration amount + vesting + leftover is the
\* total supply, the buffered amount is not below the consumption, and
\* migrationQuoteThreshold = floor(migrationAmount * pMax^2 / 2^(2 *
\* RESOLUTION)).
C24_MigrationRemainder ==
    Returned(WeightedBuilders) =>
        /\ ConsumedOnReturnedCurve.ok
        /\ BufferedOnReturnedCurve.ok
        /\ BufferedOnReturnedCurve.val >= ConsumedOnReturnedCurve.val
        /\ MigrationAmountOfReturnedCurve >= 0
        /\ BufferedOnReturnedCurve.val + MigrationAmountOfReturnedCurve
               + GetTotalVestingAmount(inp.lockedVesting) + res.totalLeftover
               = inp.totalTokenSupply * 10^inp.tokenBaseDecimal
        /\ res.migrationQuoteThreshold * 2^(2 * ResolutionBits)
               <= MigrationAmountOfReturnedCurve
                      * MigrationMarketCapPrice * MigrationMarketCapPrice
        /\ MigrationAmountOfReturnedCurve * MigrationMarketCapPrice * MigrationMarketCapPrice
               < (res.migrationQuoteThreshold + 1) * 2^(2 * ResolutionBits)

\* C24's case: a first-buy build has returned with a leftover, a base
\* consumption and a migration amount that the threshold rounds down
C24_Witness ==
    /\ Returned({"buildCurveWithCreatorFirstBuy"})
    /\ res.totalLeftover > 0
    /\ ConsumedOnReturnedCurve.val > 0
    /\ MigrationAmountOfReturnedCurve > 0
    /\ res.migrationQuoteThreshold * 2^(2 * ResolutionBits)
           < MigrationAmountOfReturnedCurve
                 * MigrationMarketCapPrice * MigrationMarketCapPrice

\* C25: in both weighted modes the builder emits exactly 16 segments and
\* the upper sqrt price of the 16th segment is pMax, the sqrt price of
\* migrationMarketCap, so that pMax is a boundary of the returned curve in
\* buildCurveWithCreatorFirstBuy as in buildCurveWithLiquidityWeights.
C25_LastSegmentEndsAtPMax ==
    Returned(WeightedBuilders) =>
        /\ Len(res.curve) = 16
        /\ res.curve[16].sqrtPrice = MigrationMarketCapPrice

\* pMin: the sqrt price of the call's initial market cap
InitialMarketCapPrice ==
    GetSqrtPriceFromMarketCap(inp.initialMarketCap, inp.totalTokenSupply,
                              inp.tokenBaseDecimal, inp.tokenQuoteDecimal)

\* the 17 prices p_0 .. p_16 of the grid from pMin, at indices 1 .. 17
GridOfCall ==
    SqrtPriceGrid(17, InitialMarketCapPrice,
                  DecimalRoot(MulDivFloor(MigrationMarketCapPrice, DecimalOne,
                                          InitialMarketCapPrice), 16))

\* totalSwapAndMigrationAmount of the call
SwapAndMigrationAmountOfCall ==
    inp.totalTokenSupply * 10^inp.tokenBaseDecimal
        - GetTotalVestingAmount(inp.lockedVesting)
        - inp.leftover * 10^inp.tokenBaseDecimal

FirstBuyBaseReleasedDown ==
    MulDivFloor(res.curve[1].liquidity, res.curve[1].sqrtPrice - res.sqrtStartPrice,
                res.sqrtStartPrice * res.curve[1].sqrtPrice)

FirstBuyBaseReleasedUp ==
    GetDeltaAmountBase(res.sqrtStartPrice, res.curve[1].sqrtPrice,
                       res.curve[1].liquidity).val

\* the first segment ends at pMin, and paying the quote amount after fee
\* into its liquidity from the returned start price takes the price there
FirstBuyReachesPMin ==
    /\ res.curve[1].sqrtPrice = InitialMarketCapPrice
    /\ res.sqrtStartPrice = FirstBuyP0(inp).val
    /\ res.sqrtStartPrice < res.curve[1].sqrtPrice
    /\ GetNextSqrtPriceFromInput(res.sqrtStartPrice, res.curve[1].liquidity,
                                 FirstBuyQuoteAmountAfterFee(inp))
           = Ok(res.curve[1].sqrtPrice)
    /\ GetDeltaAmountQuoteUp(res.sqrtStartPrice, res.curve[1].sqrtPrice,
                             res.curve[1].liquidity)
           = Ok(FirstBuyQuoteAmountAfterFee(inp))

\* C27: in buildCurveWithCreatorFirstBuy the start price p0 and the first
\* segment's liquidity l0 make the creator's first purchase land on pMin:
\* swapping the quote amount after fee into l0 from p0 moves the sqrt price
\* to pMin, l0 * (pMin - p0) / 2^(2 * RESOLUTION) is the quote amount after
\* fee and l0 * (pMin - p0) / (p0 * pMin) is baseAmount, whichever way the
\* fixed-point quotient is rounded; the returned sqrtStartPrice is p0 and
\* the first segment ends at pMin.
C27_FirstBuyLandsOnPMin ==
    Returned({"buildCurveWithCreatorFirstBuy"}) =>
        /\ FirstBuyReachesPMin
        /\ \/ FirstBuyBaseReleasedDown = FirstBuyBaseAmount(inp)
           \/ FirstBuyBaseReleasedUp = FirstBuyBaseAmount(inp)

\* C27 as it holds: the purchase lands on pMin and costs the quote amount
\* after fee, and the base token released is baseAmount up to the precision
\* of the floored start price: not below baseAmount - 1 and below
\* baseAmount * (1 + 1/p0 + 1/(p0 * pMin)).
C27_FirstBuyLandsOnPMinWithinPrecision ==
    Returned({"buildCurveWithCreatorFirstBuy"}) =>
        /\ FirstBuyReachesPMin
        /\ FirstBuyBaseReleasedDown >= FirstBuyBaseAmount(inp) - 1
        /\ FirstBuyBaseReleasedDown * res.sqrtStartPrice * res.curve[1].sqrtPrice
               < FirstBuyBaseAmount(inp)
                     * ((res.sqrtStartPrice + 1) * res.curve[1].sqrtPrice + 1)

\* C27's case: a first buy of 80 units of base has been built from the
\* start price 10, and its segment releases 81
C27_Witness ==
    /\ Returned({"buildCurveWithCreatorFirstBuy"})
    /\ FirstBuyBaseAmount(inp) = 80
    /\ res.sqrtStartPrice = 10
    /\ FirstBuyBaseReleasedDown = 81

\* ------------------------------------------------------------------
\* Properties of the token accounts and instruction lists
\* ------------------------------------------------------------------

\* the positions of the list that hold an instruction for the mint
InstructionsOfMint(instructions, mint) ==
    {k \in 1..Len(instructions) : instructions[k].mint = mint}

\* C28: prepareTokenAccounts has the two lookups in flight together, and
\* whichever settles first, the list it returns holds token A's creation
\* instruction (if any) before token B's (if any), at most one instruction
\* per token and none for another token, and ataTokenA and ataTokenB are the
\* accounts of tokenAMint and tokenBMint.
C28_TokenAccountsInPositionalOrder ==
    /\ (pc = "awaiting" /\ op = "prepareTokenAccounts" /\ feeInp.settled = <<>>) =>
           feeInp.promises = <<Unsettled, Unsettled>>
    /\ (FeeReturned("prepareTokenAccounts") /\ feeRes.ok) =>
        LET call == feeInp.call
            instructions == feeRes.val.instructions
        IN  /\ feeRes.val.ataTokenA =
                   FindAssociatedTokenAddress(call.owner, call.tokenAMint,
                                              call.tokenAProgram)
            /\ feeRes.val.ataTokenB =
                   FindAssociatedTokenAddress(call.owner, call.tokenBMint,
                                              call.tokenBProgram)
            /\ \A k \in 1..Len(instructions) :
                   /\ instructions[k].mint \in {call.tokenAMint, call.tokenBMint}
                   /\ instructions[k].account =
                          IF instructions[k].mint = call.tokenAMint
                          THEN feeRes.val.ataTokenA ELSE feeRes.val.ataTokenB
            /\ Cardinality(InstructionsOfMint(instructions, call.tokenAMint)) <= 1
            /\ Cardinality(InstructionsOfMint(instructions, call.tokenBMint)) <= 1
            /\ \A j \in InstructionsOfMint(instructions, call.tokenAMint),
                  k \in InstructionsOfMint(instructions, call.tokenBMint) : j < k

\* C28's case: token B's lookup settled before token A's, both accounts
\* were missing, and prepareTokenAccounts has returned
C28_Witness ==
    /\ FeeReturned("prepareTokenAccounts")
    /\ feeRes.ok
    /\ feeInp.settled = <<2, 1>>
    /\ Len(feeRes.val.instructions) = 2

\* the kinds of the instructions of a list, in the list's order
KindsOf(instructions) == [k \in 1..Len(instructions) |-> instructions[k].kind]

\* the mints a swap takes from the wallet and pays to it
InputMintOfSwap ==
    IF feeInp.call.swapParam.swapBaseForQuote THEN feeInp.call.baseMint
    ELSE feeInp.call.quoteMint

OutputMintOfSwap ==
    IF feeInp.call.swapParam.swapBaseForQuote THEN feeInp.call.quoteMint
    ELSE feeInp.call.baseMint

\* C29: the list getBuyInstructionsPreLaunch returns is, in this order, the
\* creation of the input token account if and only if it does not exist,
\* the creation of the output token account if and only if it does not
\* exist, the SOL transfer and sync if and only if the input mint is native
\* SOL, exactly one swap, and the closing of the wrapped SOL account if and
\* only if the input or the output mint is native SOL.
C29_SwapBetweenPreAndPostInstructions ==
    (FeeReturned("getBuyInstructionsPreLaunch") /\ feeRes.ok) =>
        LET creations ==
                (IF feeInp.inputTokenAccountInfo = AccountMissing
                 THEN <<InputMintOfSwap>> ELSE <<>>)
                \o (IF feeInp.outputTokenAccountInfo = AccountMissing
                    THEN <<OutputMintOfSwap>> ELSE <<>>)
            created == Len(creations)
        IN  /\ KindsOf(feeRes.val) =
                   [k \in 1..created |-> "createAssociatedTokenAccountIdempotent"]
                   \o (IF InputMintOfSwap = NATIVE_MINT
                       THEN <<"transfer", "syncNative">> ELSE <<>>)
                   \o <<"swap">>
                   \o (IF NATIVE_MINT \in {InputMintOfSwap, OutputMintOfSwap}
                       THEN <<"closeAccount">> ELSE <<>>)
            /\ \A k \in 1..created : feeRes.val[k].mint = creations[k]

\* C29's case: a swap of SOL for a token whose account does not exist has
\* been given its five instructions
C29_Witness ==
    /\ FeeReturned("getBuyInstructionsPreLaunch")
    /\ feeRes.ok
    /\ InputMintOfSwap = NATIVE_MINT
    /\ feeInp.inputTokenAccountInfo = AccountFound
    /\ feeInp.outputTokenAccountInfo = AccountMissing
    /\ Len(feeRes.val) = 5

\* ------------------------------------------------------------------
\* Properties of the partner service
\* ------------------------------------------------------------------

CreateConfigMethods ==
    {"createConfig", "buildCurveAndCreateConfig", "buildCurveAndCreateConfigByMarketCap"}

\* the configuration a create-config method starts from: the one it was
\* given, or the one its builder returns
ConfigurationOfCall ==
    CASE op = "createConfig" -> feeInp.param.configParam
      [] op = "buildCurveAndCreateConfig" -> BuildCurve(feeInp.param.buildCurveParam)
      [] op = "buildCurveAndCreateConfigByMarketCap" ->
             BuildCurveWithMarketCap(feeInp.param.buildCurveByMarketCapParam)

\* C30: createConfig, buildCurveAndCreateConfig and
\* buildCurveAndCreateConfigByMarketCap return a transaction only after
\* validateConfigParameters has accepted the configuration together with
\* leftoverReceiver: no transaction is returned for a configuration the
\* validation rejects, and the transaction carries the configuration and
\* the leftoverReceiver that were validated.
C30_TransactionOnlyOfValidatedConfiguration ==
    (pc = "done" /\ op \in CreateConfigMethods) =>
        /\ feeRes.ok =>
               /\ ~feeInp.rejects
               /\ feeInp.validated =
                      <<ValidatedConfiguration(ConfigurationOfCall,
                                               feeInp.param.leftoverReceiver)>>
               /\ feeRes.val.method = "createConfig"
               /\ feeRes.val.args = feeInp.validated[1].configParam
               /\ feeRes.val.accounts.leftoverReceiver =
                      feeInp.validated[1].leftoverReceiver
        /\ feeInp.rejects => ~feeRes.ok

\* C30's case: validateConfigParameters has rejected the configuration
\* buildCurveByMarketCap built, and no transaction was returned
C30_Witness ==
    /\ pc = "done"
    /\ op = "buildCurveAndCreateConfigByMarketCap"
    /\ feeInp.rejects
    /\ Len(feeInp.validated) = 1
    /\ feeRes.err = InvalidConfigParameters

====
